---- MODULE Spec2Model ----
(***************************************************************************)
(* Model of the IMAP STORE command of the mail server                      *)
(* (crates/imap/src/op/store.rs, SessionData::store): several sessions     *)
(* change the keywords of the messages of one account through the store's  *)
(* conditional write, assign a change id, and commit a change log.         *)
(*                                                                         *)
(* One step of a session is one operation on shared state (a store read,   *)
(* the change-id assignment, a store write, the change-log commit, the     *)
(* state-change broadcast) together with the local computation that        *)
(* follows it up to the next such operation.                               *)
(***************************************************************************)
EXTENDS Integers, Sequences, FiniteSets, TLC

\* ------------------------------------------------------------------ bounds

\* Commands started, over all sessions.
MaxCommands == 2

\* The retry bound of the per-record loop. store.rs imports it from
\* core::message; its value is set outside the modelled sources, and the
\* model keeps it a parameter.
MAX_RETRIES == 1

\* Messages deleted by other clients.
MaxDeleted == 1

\* The part numbers of the path of a section.
MaxSegments == 2

\* The nesting of the parts of a structure tree, the children of a
\* multipart in it, and the parts of the tree.
MaxDepth == 4
MaxChildren == 2
MaxParts == 5

\* The batches of the change log while the Address Resolver is followed.
MaxChanges == 3

\* ------------------------------------------------------------ the universe

Sessions == {1, 2}
Records == {1, 2}
Keywords == {"Seen", "Flagged"}

\* new_data.mailboxes of each message: the mailboxes that contain it.
\* STORE never changes them.
MailboxesOf(id) == IF id = 1 THEN {1} ELSE {1, 2}

\* u64::MAX, the "no change id yet" value of ChangeLogBuilder::new().
\* It stands outside the range the change counter reaches.
U64_MAX == -1

Operations == {"Set", "Add", "Clear"}

\* ImapId: the sequence number and the UID of each message in the selected
\* mailbox. Document ids do not follow the mailbox order.
Seqnum(id) == 3 - id
Uid(id) == 10 + Seqnum(id)

\* Option: None, Some(x)
None == <<>>
Some(x) == <<x>>

\* The parameters of store(): the operation and keywords of the command, its
\* sequence set resolved to ids (messages without repetition, in the iteration
\* order of the id map), is_silent, and is_condstore, which the session
\* passes. These commands are STORE without UNCHANGEDSINCE, by sequence
\* number, every address of the sequence set in the mailbox.
Arguments(operations, keywords, ids, silent, condstore) ==
    [operation : operations, keywords : keywords, ids : ids,
     is_silent : silent, is_condstore : condstore,
     unchanged_since : {None}, is_uid : {FALSE}, missing : {{}}]

NoArguments ==
    [operation |-> "Set", keywords |-> {}, ids |-> <<>>, is_silent |-> FALSE,
     is_condstore |-> FALSE, unchanged_since |-> None, is_uid |-> FALSE,
     missing |-> {}]

\* ------------------------------------------------------------------- state

VARIABLES
    email,             \* store: message id -> [keywords, change_id]
    change_counter,    \* store: the account's change counter
    change_log,        \* store: the committed batches, in commit order
    state_changes,     \* the broadcast state-change notifications, in order
    deleted,           \* store: the messages whose data is gone
    tasks,             \* store: the task queue (spam-filter training tasks)
    pc,                \* session -> position in store()
    arguments,         \* session -> arguments of the running command
    pos,               \* session -> index in arguments.ids of the current record
    try_count,         \* session -> try_count of the current record
    data,              \* session -> the value read for the current record
    changelog,         \* session -> the command's ChangeLogBuilder
    changed_mailboxes, \* session -> changed_mailboxes
    response,          \* session -> the tagged status response
    items,             \* session -> the untagged FETCH items of the response
    can_spam_train,    \* session -> can_spam_train of the running command
    sent,              \* session -> what the command has written to the client
    set_seen_ids,      \* session -> set_seen_ids of the running FETCH
    mailbox,           \* session -> the state of its selected mailbox
    is_condstore,      \* session -> CONDSTORE is enabled for the session
    walk,              \* the locals of a running body_structure()
    \* history variables, read by the properties only
    initial,           \* email in the initial state
    writes,            \* message id -> number of writes accepted so far
    history,           \* session -> counts of what the running command did
    outcome,           \* session -> what happened to each record processed
    ncommands          \* commands started so far

vars ==
    <<email, change_counter, change_log, state_changes, deleted, tasks, pc,
      arguments, pos, try_count, data, changelog, changed_mailboxes, response,
      items, can_spam_train, sent, set_seen_ids, mailbox, is_condstore, walk,
      initial, writes, history, outcome, ncommands>>

storeVars ==
    <<email, change_counter, change_log, state_changes, deleted, tasks>>

\* The locals of fetch() that store() does not have.
fetchLocals == <<sent, set_seen_ids>>

\* ----------------------------------------------------------------- helpers

\* ChangeLogBuilder::new()
NewChangeLog == [change_id |-> U64_MAX, updates |-> {}, child_updates |-> {}]

\* ChangeLogBuilder::is_empty()
is_empty(cl) == cl.updates = {} /\ cl.child_updates = {}

\* assign_change_id: the next value of the account's change counter.
assign_change_id(counter) == counter + 1

\* commit_changes: the builder's entries are written to the change log as one
\* batch under the builder's change id.
commit_changes(log, cl) ==
    Append(log, [change_id |-> cl.change_id, updates |-> cl.updates,
                 child_updates |-> cl.child_updates, deletes |-> {},
                 inserts |-> {}])

\* StatusResponse::completed(Command::Store(is_uid))
Completed == [rtype |-> "Ok", message |-> "completed", code |-> None]

\* Query::from_modseq: the change id a modseq stands for. A batch committed
\* under change id c is reported as modseq c + 1.
from_modseq(modseq) == modseq - 1

\* store().changes(account, Collection::Email, query): the changes of the
\* batches after the change id, one per message: Delete for a message that
\* was deleted, Update for one that was updated.
changes(log, since) ==
    LET after == {b \in DOMAIN log : log[b].change_id > since}
        del == UNION {log[b].deletes : b \in after}
        upd == UNION {log[b].updates : b \in after}
    IN {[kind |-> "Delete", id |-> id] : id \in del}
       \cup {[kind |-> "Update", id |-> id] : id \in upd \ del}

\* sort_unstable of a vector without repetitions, given as its set of
\* elements.
RECURSIVE Sorted(_)
Sorted(set) ==
    IF set = {} THEN <<>>
    ELSE LET least == CHOOSE x \in set : \A y \in set : x <= y
         IN <<least>> \o Sorted(set \ {least})

\* The match on arguments.operation: the keywords of new_data.
ApplyOperation(operation, set_keywords, keywords) ==
    CASE operation = "Set" -> set_keywords
      [] operation = "Add" -> keywords \cup set_keywords
      [] operation = "Clear" -> keywords \ set_keywords

\* seen_changed as the match on arguments.operation computes it.
SeenChanged(operation, set_keywords, keywords) ==
    CASE operation = "Set" -> ("Seen" \in set_keywords) # ("Seen" \in keywords)
      [] operation = "Add" -> "Seen" \in set_keywords /\ "Seen" \notin keywords
      [] operation = "Clear" -> "Seen" \in set_keywords /\ "Seen" \in keywords

\* MessageData::has_keyword_changes
has_keyword_changes(new_keywords, old_keywords) == new_keywords # old_keywords

\* if new_data.has_keyword_changes(data.inner): only then is anything written.
WritesAlways(new_keywords, old_keywords) == TRUE
NeedsWrite(new_keywords, old_keywords) ==
    has_keyword_changes(new_keywords, old_keywords)

\* "Train spam filter": train_spam, None or Some(learn_spam). The added
\* keywords are searched for Junk (learn spam) and NotJunk (learn ham) and the
\* first found decides, in the order of the keyword list, which the model
\* leaves open; without either, a removed Junk is learnt as ham.
IgnoresRemoved(can_train, new_keywords, old_keywords) ==
    LET added == new_keywords \ old_keywords
    IN IF ~can_train THEN {None}
       ELSE IF added \cap {"Junk", "NotJunk"} # {}
         THEN {Some(k = "Junk") : k \in added \cap {"Junk", "NotJunk"}}
       ELSE {None}
TrainSpam(can_train, new_keywords, old_keywords) ==
    LET added == new_keywords \ old_keywords
        removed == old_keywords \ new_keywords
    IN IF ~can_train THEN {None}
       ELSE IF added \cap {"Junk", "NotJunk"} # {}
         THEN {Some(k = "Junk") : k \in added \cap {"Junk", "NotJunk"}}
       ELSE IF "Junk" \in removed THEN {Some(FALSE)}
       ELSE {None}

\* "Add spam train task": the task the batch sets in the task queue.
TrainTask(id, train_spam) ==
    IF train_spam = None THEN <<>>
    ELSE << [id |-> id, learn_spam |-> train_spam[1]] >>

\* if changelog.change_id == u64::MAX: only then is a change id assigned.
AssignsAlways(cl) == TRUE
NeedsChangeId(cl) == cl.change_id = U64_MAX

\* The record the session is working on.
CurrentId(s) == arguments[s].ids[pos[s]]

\* new_data.keywords for the value the session read.
NewKeywords(s) ==
    ApplyOperation(arguments[s].operation, arguments[s].keywords, data[s].keywords)

\* ObjectIndexBuilder::new().with_current(data): the value the write asserts.
WithLive(s) == email[CurrentId(s)]
WithCurrent(s) == data[s]

\* The store's conditional write: the assertion on the current value fails
\* (is_assertion_failure) when the stored value is no longer the asserted one.
AssertionHolds(id, current) == id \notin deleted /\ email[id] = current

NoData == [keywords |-> {}, change_id |-> 0]

NoHistory ==
    [reads |-> 0, first_read_at |-> 0, read_at |-> 0, attempts |-> 0,
     assigned |-> 0, commits |-> <<>>, broadcasts |-> <<>>,
     resolved |-> <<>>, log_at_start |-> 0, synchronized |-> FALSE,
     blobs |-> <<>>]

\* The history of a command that moves to its next record.
NextHistory(h) ==
    [h EXCEPT !.reads = 0, !.first_read_at = 0, !.read_at = 0, !.attempts = 0]

\* The command has returned (or was dropped): its arguments and locals are gone.
DropLocals(s) ==
    /\ arguments' = [arguments EXCEPT ![s] = NoArguments]
    /\ pos' = [pos EXCEPT ![s] = 1]
    /\ try_count' = [try_count EXCEPT ![s] = 0]
    /\ data' = [data EXCEPT ![s] = NoData]
    /\ changelog' = [changelog EXCEPT ![s] = NewChangeLog]
    /\ changed_mailboxes' = [changed_mailboxes EXCEPT ![s] = {}]
    /\ response' = [response EXCEPT ![s] = Completed]
    /\ items' = [items EXCEPT ![s] = <<>>]
    /\ can_spam_train' = [can_spam_train EXCEPT ![s] = FALSE]
    /\ set_seen_ids' = [set_seen_ids EXCEPT ![s] = <<>>]
    /\ history' = [history EXCEPT ![s] = NoHistory]
    /\ outcome' = [outcome EXCEPT ![s] = <<>>]

\* The state of a mailbox that was selected with the messages of Records in
\* it, in the order of their ids: the address (uid, seqnum) of each message,
\* the number of messages, the next unused UID and the number of batches of
\* the change log the mailbox has seen.
SelectedMailbox ==
    [id_to_imap |-> {[id |-> id, uid |-> id, seqnum |-> id] : id \in Records},
     total_messages |-> Cardinality(Records),
     uid_next |-> Cardinality(Records) + 1,
     modseq |-> 0]

\* The state before any command, the messages holding the keywords k.
InitWith(k) ==
    /\ email = [id \in Records |-> [keywords |-> k[id], change_id |-> 0]]
    /\ initial = email
    /\ change_counter = 0
    /\ change_log = <<>>
    /\ state_changes = <<>>
    /\ pc = [s \in Sessions |-> "idle"]
    /\ arguments = [s \in Sessions |-> NoArguments]
    /\ pos = [s \in Sessions |-> 1]
    /\ try_count = [s \in Sessions |-> 0]
    /\ data = [s \in Sessions |-> NoData]
    /\ changelog = [s \in Sessions |-> NewChangeLog]
    /\ changed_mailboxes = [s \in Sessions |-> {}]
    /\ response = [s \in Sessions |-> Completed]
    /\ items = [s \in Sessions |-> <<>>]
    /\ deleted = {}
    /\ tasks = <<>>
    /\ can_spam_train = [s \in Sessions |-> FALSE]
    /\ sent = [s \in Sessions |-> <<>>]
    /\ set_seen_ids = [s \in Sessions |-> <<>>]
    /\ mailbox = [s \in Sessions |-> SelectedMailbox]
    /\ is_condstore = [s \in Sessions |-> FALSE]
    /\ walk = [state |-> "idle", tree |-> [parts |-> <<>>], message |-> [parts |-> <<>>],
               message_id |-> 0, parts |-> <<>>, stack |-> <<>>,
               root_part |-> None, visited |-> <<>>]
    /\ writes = [id \in Records |-> 0]
    /\ history = [s \in Sessions |-> NoHistory]
    /\ outcome = [s \in Sessions |-> <<>>]
    /\ ncommands = 0

\* Message 2 is Seen when the sessions start and message 1 is not.
Init == InitWith([id \in Records |-> IF id = 1 THEN {} ELSE {"Seen"}])

\* ----------------------------------------------------------------- actions

\* What the session has done to the current record, for the properties.
Result(s, id, kind, old_keywords, keywords, change_id, h) ==
    [id |-> id, result |-> kind, old_keywords |-> old_keywords,
     keywords |-> keywords, change_id |-> change_id, reads |-> h.reads,
     attempts |-> h.attempts, first_read_at |-> h.first_read_at]

\* The end of one record's loop (break): the session moves to the next id.
\* After the last id the changed mailboxes are logged (log_child_update) and
\* an empty change log ends the command without commit.
NextRecord(s, cl, result) ==
    LET last == pos[s] = Len(arguments[s].ids)
        final == [cl EXCEPT !.child_updates = changed_mailboxes[s]]
    IN /\ outcome' = [outcome EXCEPT ![s] = Append(@, result)]
       /\ history' = [history EXCEPT ![s] = NextHistory(@)]
       /\ pos' = [pos EXCEPT ![s] = @ + 1]
       /\ try_count' = [try_count EXCEPT ![s] = 0]
       /\ data' = [data EXCEPT ![s] = NoData]
       /\ changelog' = [changelog EXCEPT ![s] = IF last THEN final ELSE cl]
       /\ pc' = [pc EXCEPT ![s] =
                    IF ~last THEN "read"
                    ELSE IF is_empty(final) THEN "done" ELSE "commit"]
       /\ UNCHANGED changed_mailboxes

\* "Filter out unchanged since ids": the changes since the modseq of
\* UNCHANGEDSINCE that remove a resolved id from ids.
KeepsChanged(a, log) == {}
ChangedSince(a, log) ==
    IF a.unchanged_since = None THEN {}
    ELSE {c \in changes(log, from_modseq(a.unchanged_since[1])) :
             \E i \in DOMAIN a.ids : a.ids[i] = c.id}

\* modified: the addresses of the sequence set that are not in the mailbox
\* (sequence_expand_missing) and the addresses of the removed ids.
Modified(a, removed) ==
    IF a.unchanged_since = None THEN {}
    ELSE a.missing
         \cup {IF a.is_uid THEN Uid(c.id) ELSE Seqnum(c.id) : c \in removed}

\* "Build response": the tagged response the loop starts with, a NO when
\* unchanged_failed, which is set for a removed id whose change is a Delete
\* in the branch of the sequence-number STORE.
BuildResponse(a, removed) ==
    LET unchanged_failed == ~a.is_uid /\ \E c \in removed : c.kind = "Delete"
    IN [(IF unchanged_failed
           THEN [rtype |-> "No",
                 message |-> "Some of the messages no longer exist.",
                 code |-> None]
           ELSE Completed)
          EXCEPT !.code =
              IF Modified(a, removed) = {} THEN None
              ELSE Some([kind |-> "Modified",
                         ids |-> Sorted(Modified(a, removed))])]

\* store() is called with arguments a: the command starts with fresh local
\* state. A command whose sequence set resolves to no id completes at once;
\* with UNCHANGEDSINCE the ids changed since are taken out before the loop.
\* can_train is what email_bayes_can_train answers for the account.
StartStoreWith(s, a, can_train) ==
    /\ pc[s] \in {"idle", "done", "error"}
    /\ LET removed == ChangedSince(a, change_log)
           \* ids after ids.remove(&id) of the changed ids
           ids == SelectSeq(a.ids, LAMBDA id : \A c \in removed : c.id # id)
       IN /\ arguments' = [arguments EXCEPT ![s] = [a EXCEPT !.ids = ids]]
          /\ pc' = [pc EXCEPT ![s] = IF ids = <<>> THEN "done" ELSE "read"]
          /\ response' = [response EXCEPT ![s] =
                 IF a.ids = <<>> THEN Completed ELSE BuildResponse(a, removed)]
          /\ history' = [history EXCEPT ![s] =
                 IF a.unchanged_since = None THEN NoHistory
                 ELSE [NoHistory EXCEPT !.resolved = a.ids,
                                        !.log_at_start = Len(change_log)]]
    /\ ncommands' = ncommands + 1
    /\ pos' = [pos EXCEPT ![s] = 1]
    /\ try_count' = [try_count EXCEPT ![s] = 0]
    /\ data' = [data EXCEPT ![s] = NoData]
    /\ changelog' = [changelog EXCEPT ![s] = NewChangeLog]
    /\ changed_mailboxes' = [changed_mailboxes EXCEPT ![s] = {}]
    /\ items' = [items EXCEPT ![s] = <<>>]
    /\ outcome' = [outcome EXCEPT ![s] = <<>>]
    /\ can_spam_train' = [can_spam_train EXCEPT ![s] = can_train]
    /\ sent' = [sent EXCEPT ![s] = <<>>]
    /\ set_seen_ids' = [set_seen_ids EXCEPT ![s] = <<>>]
    /\ UNCHANGED <<storeVars, initial, mailbox, is_condstore, walk, writes>>

\* store() for an account whose spam filter is not trained from keywords.
StartStore(s, a) == StartStoreWith(s, a, FALSE)

\* "Verify that the user can modify messages in this mailbox": store() is
\* called with a sequence set that resolves to ids and check_mailbox_acl
\* answers no for ModifyItems; the command returns the error with the
\* response code NoPerm.
DeniedAfterAssign(s) ==
    /\ pc[s] \in {"idle", "done", "error"}
    /\ ncommands < MAX_RETRIES + 2
    /\ \E a \in Arguments({"Set", "Add"}, {{"Flagged"}}, {<<1>>, <<1, 2>>},
                           BOOLEAN, BOOLEAN) :
          arguments' = [arguments EXCEPT ![s] = a]
    /\ response' = [response EXCEPT ![s] =
           [rtype |-> "No",
            message |-> "You do not have the required permissions to modify messages in this mailbox.",
            code |-> Some([kind |-> "NoPerm"])]]
    /\ pc' = [pc EXCEPT ![s] = "error"]
    /\ ncommands' = ncommands + 1
    /\ pos' = [pos EXCEPT ![s] = 1]
    /\ try_count' = [try_count EXCEPT ![s] = 0]
    /\ data' = [data EXCEPT ![s] = NoData]
    /\ changelog' = [changelog EXCEPT ![s] = NewChangeLog]
    /\ changed_mailboxes' = [changed_mailboxes EXCEPT ![s] = {}]
    /\ items' = [items EXCEPT ![s] = <<>>]
    /\ outcome' = [outcome EXCEPT ![s] = <<>>]
    /\ can_spam_train' = [can_spam_train EXCEPT ![s] = FALSE]
    /\ sent' = [sent EXCEPT ![s] = <<>>]
    /\ set_seen_ids' = [set_seen_ids EXCEPT ![s] = <<>>]
    /\ history' = [history EXCEPT ![s] = NoHistory]
    /\ change_counter' = assign_change_id(change_counter)
    /\ UNCHANGED <<email, change_log, state_changes, deleted, tasks, initial,
                   mailbox, is_condstore, walk, writes>>
StoreDenied(s) ==
    /\ pc[s] \in {"idle", "done", "error"}
    /\ ncommands < MAX_RETRIES + 2
    /\ \E a \in Arguments({"Set", "Add"}, {{"Flagged"}}, {<<1>>, <<1, 2>>},
                           BOOLEAN, BOOLEAN) :
          arguments' = [arguments EXCEPT ![s] = a]
    /\ response' = [response EXCEPT ![s] =
           [rtype |-> "No",
            message |-> "You do not have the required permissions to modify messages in this mailbox.",
            code |-> Some([kind |-> "NoPerm"])]]
    /\ pc' = [pc EXCEPT ![s] = "error"]
    /\ ncommands' = ncommands + 1
    /\ pos' = [pos EXCEPT ![s] = 1]
    /\ try_count' = [try_count EXCEPT ![s] = 0]
    /\ data' = [data EXCEPT ![s] = NoData]
    /\ changelog' = [changelog EXCEPT ![s] = NewChangeLog]
    /\ changed_mailboxes' = [changed_mailboxes EXCEPT ![s] = {}]
    /\ items' = [items EXCEPT ![s] = <<>>]
    /\ outcome' = [outcome EXCEPT ![s] = <<>>]
    /\ can_spam_train' = [can_spam_train EXCEPT ![s] = FALSE]
    /\ sent' = [sent EXCEPT ![s] = <<>>]
    /\ set_seen_ids' = [set_seen_ids EXCEPT ![s] = <<>>]
    /\ history' = [history EXCEPT ![s] = NoHistory]
    /\ UNCHANGED <<storeVars, initial, mailbox, is_condstore, walk, writes>>

\* "Obtain current keywords", the else branch: the message data or its thread
\* id is not found; continue 'outer, the loop goes on with the next id.
NotFoundIsFatal(s, h) ==
    /\ pc' = [pc EXCEPT ![s] = "done"]
    /\ outcome' = [outcome EXCEPT ![s] =
           Append(@, Result(s, CurrentId(s), "missing", {}, {}, 0, h))]
    /\ history' = [history EXCEPT ![s] = NextHistory(@)]
    /\ UNCHANGED <<pos, try_count, data, changelog, changed_mailboxes>>
RecordNotFound(s, h) ==
    NextRecord(s, changelog[s], Result(s, CurrentId(s), "missing", {}, {}, 0, h))

\* "Obtain current keywords" and "Apply changes": the record is read and the
\* new keywords are computed. Without keyword changes the record is done;
\* otherwise the mailboxes of a message whose Seen keyword changes are marked
\* and the session goes on to assign a change id, or to write.
ReadRecord(s) ==
    /\ pc[s] = "read"
    /\ LET id == CurrentId(s)
           current == email[id]
           keywords == ApplyOperation(arguments[s].operation,
                                      arguments[s].keywords, current.keywords)
           seen_changed == SeenChanged(arguments[s].operation,
                                       arguments[s].keywords, current.keywords)
           h == [history[s] EXCEPT
                    !.reads = @ + 1,
                    !.read_at = writes[id],
                    !.first_read_at =
                        IF history[s].reads = 0 THEN writes[id] ELSE @]
       IN IF id \in deleted
            THEN RecordNotFound(s, h)
          ELSE IF NeedsWrite(keywords, current.keywords)
            THEN /\ data' = [data EXCEPT ![s] = current]
                 /\ history' = [history EXCEPT ![s] = h]
                 /\ pc' = [pc EXCEPT ![s] =
                              IF NeedsChangeId(changelog[s])
                                THEN "assign" ELSE "write"]
                 /\ changed_mailboxes' =
                        [changed_mailboxes EXCEPT ![s] =
                            IF seen_changed THEN @ \cup MailboxesOf(id) ELSE @]
                 /\ UNCHANGED <<pos, try_count, changelog, outcome>>
            ELSE NextRecord(s, changelog[s],
                            Result(s, id, "unchanged", current.keywords,
                                   keywords, current.change_id, h))
    /\ UNCHANGED <<storeVars, arguments, response, items, can_spam_train,
                   fetchLocals, initial, mailbox, is_condstore, walk, writes, ncommands>>

\* "Add change id": assign_change_id takes the next value of the account's
\* change counter; the builder keeps it for the rest of the command.
AssignChangeId(s) ==
    /\ pc[s] = "assign"
    /\ change_counter' = assign_change_id(change_counter)
    /\ changelog' = [changelog EXCEPT ![s].change_id =
                         assign_change_id(change_counter)]
    /\ history' = [history EXCEPT ![s].assigned = @ + 1]
    /\ pc' = [pc EXCEPT ![s] = "write"]
    /\ UNCHANGED <<email, change_log, state_changes, deleted, tasks, arguments,
                   pos, try_count, data, changed_mailboxes, response, items,
                   can_spam_train, fetchLocals, initial, mailbox, is_condstore, walk, writes, outcome,
                   ncommands>>

\* The FETCH item pushed for a written record.
\* Its id is the message's sequence number; the document id is kept with it
\* for the properties.
FetchItem(s, id, flags, modseq) ==
    LET uid == IF arguments[s].is_uid THEN << <<"Uid", Uid(id)>> >> ELSE <<>>
        mod == IF arguments[s].is_condstore
                 THEN << <<"ModSeq", modseq>> >> ELSE <<>>
    IN [id |-> id, seqnum |-> Seqnum(id),
        items |-> IF ~arguments[s].is_silent
                    THEN << <<"Flags", flags>> >> \o uid \o mod
                    ELSE mod \o uid]

\* "Write changes", Ok(_): the store accepts the batch. The record takes the
\* new keywords and the command's change id, the update is logged in the
\* builder, and the item is added to the response.
WriteAccepted(s) ==
    /\ pc[s] = "write"
    /\ AssertionHolds(CurrentId(s), WithCurrent(s))
    /\ LET id == CurrentId(s)
           cl == [changelog[s] EXCEPT !.updates = @ \cup {id}]
           modseq == changelog[s].change_id + 1
           h == [history[s] EXCEPT !.attempts = @ + 1]
       IN /\ email' = [email EXCEPT ![id] =
                          [keywords |-> NewKeywords(s),
                           change_id |-> changelog[s].change_id]]
          /\ writes' = [writes EXCEPT ![id] = @ + 1]
          /\ \E train_spam \in TrainSpam(can_spam_train[s], NewKeywords(s),
                                         data[s].keywords) :
                 tasks' = tasks \o TrainTask(id, train_spam)
          /\ items' = [items EXCEPT ![s] =
                          IF ~arguments[s].is_silent \/ arguments[s].is_condstore
                            THEN Append(@, FetchItem(s, id, NewKeywords(s), modseq))
                            ELSE @]
          /\ NextRecord(s, cl,
                        Result(s, id, "written", data[s].keywords,
                               NewKeywords(s), changelog[s].change_id, h))
    /\ UNCHANGED <<change_counter, change_log, state_changes, deleted,
                   arguments, response, can_spam_train, fetchLocals, initial, mailbox, is_condstore, walk,
                   ncommands>>

\* Err(err) if err.is_assertion_failure(), try_count < MAX_RETRIES:
\* try_count += 1; continue. The record is read again.
RetryWithoutCount(s) ==
    /\ history' = [history EXCEPT ![s].attempts = @ + 1]
    /\ data' = [data EXCEPT ![s] = NoData]
    /\ pc' = [pc EXCEPT ![s] = "read"]
    /\ UNCHANGED <<try_count, pos, changelog, changed_mailboxes, response,
                   outcome>>
Retry(s) ==
    /\ try_count' = [try_count EXCEPT ![s] = @ + 1]
    /\ history' = [history EXCEPT ![s].attempts = @ + 1]
    /\ data' = [data EXCEPT ![s] = NoData]
    /\ pc' = [pc EXCEPT ![s] = "read"]
    /\ UNCHANGED <<pos, changelog, changed_mailboxes, response, outcome>>

\* Err(err) if err.is_assertion_failure(), try_count = MAX_RETRIES: the
\* response becomes NO and the loop goes on with the next id.
GiveUpAndLeave(s) ==
    /\ response' = [response EXCEPT
           ![s].rtype = "No",
           ![s].message = "Some messages could not be updated."]
    /\ outcome' = [outcome EXCEPT ![s] =
           Append(@, Result(s, CurrentId(s), "failed", data[s].keywords,
                            NewKeywords(s),
                            data[s].change_id,
                            [history[s] EXCEPT !.attempts = @ + 1]))]
    /\ history' = [history EXCEPT ![s] = NextHistory(@)]
    /\ changelog' = [changelog EXCEPT ![s].child_updates = changed_mailboxes[s]]
    /\ pc' = [pc EXCEPT ![s] =
                 IF is_empty(changelog'[s]) THEN "done" ELSE "commit"]
    /\ data' = [data EXCEPT ![s] = NoData]
    /\ UNCHANGED <<pos, try_count, changed_mailboxes>>
GiveUp(s) ==
    /\ response' = [response EXCEPT
           ![s].rtype = "No",
           ![s].message = "Some messages could not be updated."]
    /\ NextRecord(s, changelog[s],
                  Result(s, CurrentId(s), "failed", data[s].keywords,
                            NewKeywords(s),
                         data[s].change_id,
                         [history[s] EXCEPT !.attempts = @ + 1]))

\* "Write changes", the store rejects the batch: the record changed since it
\* was read.
RejectedWithoutRetry(s) ==
    /\ pc[s] = "write"
    /\ ~AssertionHolds(CurrentId(s), WithCurrent(s))
    /\ GiveUp(s)
    /\ UNCHANGED <<storeVars, arguments, items, can_spam_train, fetchLocals,
                   initial, mailbox, is_condstore, walk, writes, ncommands>>
WriteRejected(s) ==
    /\ pc[s] = "write"
    /\ ~AssertionHolds(CurrentId(s), WithCurrent(s))
    /\ IF try_count[s] < MAX_RETRIES THEN Retry(s) ELSE GiveUp(s)
    /\ UNCHANGED <<storeVars, arguments, items, can_spam_train, fetchLocals,
                   initial, mailbox, is_condstore, walk, writes, ncommands>>

\* "Write changes", if !changelog.is_empty(): the command commits its change
\* log, a store operation of its own after the loop.
CommitChanges(s) ==
    /\ pc[s] = "commit"
    /\ change_log' = commit_changes(change_log, changelog[s])
    /\ history' = [history EXCEPT ![s].commits =
                      Append(@, changelog[s].change_id)]
    /\ pc' = [pc EXCEPT ![s] = "broadcast"]
    /\ UNCHANGED <<email, change_counter, state_changes, deleted, tasks,
                   arguments, pos, try_count, data, changelog,
                   changed_mailboxes, response, items, can_spam_train,
                   fetchLocals, initial, mailbox, is_condstore, walk, writes, outcome, ncommands>>

\* broadcast_state_change: Email, and Mailbox when a mailbox was marked.
BroadcastWithMailbox(s) ==
    /\ pc[s] = "broadcast"
    /\ state_changes' = Append(state_changes,
                               [change_id |-> changelog[s].change_id,
                                types |-> {"Email", "Mailbox"}])
    /\ history' = [history EXCEPT ![s].broadcasts =
                      Append(@, changelog[s].change_id)]
    /\ pc' = [pc EXCEPT ![s] = "done"]
    /\ UNCHANGED <<email, change_counter, change_log, deleted, tasks,
                   arguments, pos, try_count, data, changelog,
                   changed_mailboxes, response, items, can_spam_train,
                   fetchLocals, initial, mailbox, is_condstore, walk, writes, outcome, ncommands>>
BroadcastStateChange(s) ==
    /\ pc[s] = "broadcast"
    /\ state_changes' = Append(state_changes,
                               [change_id |-> changelog[s].change_id,
                                types |-> IF changed_mailboxes[s] # {}
                                            THEN {"Email", "Mailbox"}
                                            ELSE {"Email"}])
    /\ history' = [history EXCEPT ![s].broadcasts =
                      Append(@, changelog[s].change_id)]
    /\ pc' = [pc EXCEPT ![s] = "done"]
    /\ UNCHANGED <<email, change_counter, change_log, deleted, tasks,
                   arguments, pos, try_count, data, changelog,
                   changed_mailboxes, response, items, can_spam_train,
                   fetchLocals, initial, mailbox, is_condstore, walk, writes, outcome, ncommands>>

\* A store operation fails with an error that is no assertion failure
\* (the ? on get_property, get_blob, assign_change_id, begin_changes and
\* commit_changes, and the return Err(..) on the writes): the command
\* returns the error. What it has written to the client stays written.
BackendError(s) ==
    /\ pc[s] \in {"read", "assign", "write", "commit",
                 "f_read", "f_blob", "f_item", "f_begin", "f_seen"}
    /\ pc' = [pc EXCEPT ![s] = "error"]
    /\ DropLocals(s)
    /\ UNCHANGED <<storeVars, sent, initial, mailbox, is_condstore, walk, writes, ncommands>>

\* The owning session drops the command at a suspension point before the
\* commit; what it has written stands. The session is gone.
Abort(s) ==
    /\ pc[s] \in {"read", "write", "commit"}
    /\ pc' = [pc EXCEPT ![s] = "aborted"]
    /\ DropLocals(s)
    /\ UNCHANGED <<storeVars, sent, initial, mailbox, is_condstore, walk, writes, ncommands>>

\* ------------------------------------------------------------------ FETCH

\* The attributes a FETCH asks for, by name. BodySection is a non-peek
\* BODY[sections]<partial>, BodyPeek its BODY.PEEK form, Binary and
\* BinaryPeek the BINARY[sections]<partial>, BinarySize the
\* BINARY.SIZE[sections], all of them with the sections and the partial
\* range of the command; BodyHeader is a BODY[HEADER].

\* The parameters of fetch(): the attributes in the order asked for, the
\* sequence set resolved to ids (in the iteration order of the id map),
\* include_vanished, is_uid and is_qresync, and what the command finds:
\* mailbox.is_select and the answer of check_mailbox_acl for ModifyItems.
\* A FETCH without CHANGEDSINCE. Its BODY[...] are BODY[TEXT].
FetchArguments(attributes, ids, vanished, uid, qresync, select, acl) ==
    [attributes : attributes, ids : ids, include_vanished : vanished,
     is_uid : uid, is_qresync : qresync, is_select : select, acl_modify : acl,
     sections : {<<[kind |-> "Text", num |-> 0, not |-> FALSE, fields |-> {}]>>},
     partial : {None}]

\* A FETCH by sequence number of a selected mailbox whose messages the user
\* may modify, with the sections and the partial range of its BODY[...] and
\* BINARY[...].
SectionArguments(attributes, ids, sections, partial) ==
    [attributes : attributes, ids : ids, include_vanished : {FALSE},
     is_uid : {FALSE}, is_qresync : {FALSE}, is_select : {TRUE},
     acl_modify : {TRUE}, sections : sections, partial : partial]

\* "Validate VANISHED parameter": the Bad errors, or None.
NeverRejected(a) == None
VanishedRejected(a) ==
    IF ~a.include_vanished THEN None
    ELSE IF ~a.is_qresync
      THEN Some([rtype |-> "Bad",
                 message |-> "Enable QRESYNC first to use the VANISHED parameter.",
                 code |-> None])
    ELSE IF ~a.is_uid
      THEN Some([rtype |-> "Bad",
                 message |-> "VANISHED parameter is only available for UID FETCH.",
                 code |-> None])
    ELSE None

Contains(seq, x) == \E i \in DOMAIN seq : seq[i] = x

\* "Build properties list": needs_blobs, needs_thread_id and set_seen_flags,
\* the last one cleared when the ACL check fails.
\* A BODY[...] whose first section is Header or HeaderFields is passed over
\* by the first arm of the match.
HeaderFirst(sections) ==
    sections # <<>> /\ sections[1].kind \in {"Header", "HeaderFields"}
BlobsForHeadersToo(a) ==
    \E i \in DOMAIN a.attributes :
        a.attributes[i] \in {"Body", "BodyStructure", "BinarySize", "Binary",
                             "BinaryPeek", "Rfc822", "Rfc822Text",
                             "BodySection", "BodyPeek", "BodyHeader"}
NeedsBlobs(a) ==
    \E i \in DOMAIN a.attributes :
        \/ a.attributes[i] \in {"Body", "BodyStructure", "BinarySize", "Binary",
                                "BinaryPeek", "Rfc822", "Rfc822Text"}
        \/ /\ a.attributes[i] \in {"BodySection", "BodyPeek"}
           /\ ~HeaderFirst(a.sections)
NeedsThreadId(a) == Contains(a.attributes, "ThreadId")
SetSeenWithoutAcl(a) ==
    /\ a.is_select
    /\ \E i \in DOMAIN a.attributes :
          \/ a.attributes[i] \in {"Binary", "Rfc822", "Rfc822Text"}
          \/ a.attributes[i] = "BodySection" /\ ~HeaderFirst(a.sections)
SetSeenFlags(a) ==
    /\ a.is_select
    /\ \E i \in DOMAIN a.attributes :
          \/ a.attributes[i] \in {"Binary", "Rfc822", "Rfc822Text"}
          \/ a.attributes[i] = "BodySection" /\ ~HeaderFirst(a.sections)
    /\ a.acl_modify

\* The attributes of a UID FETCH: Flags when there is none, Uid put first
\* when it is not asked for.
WithUid(a) ==
    IF ~a.is_uid THEN a.attributes
    ELSE IF a.attributes = <<>> THEN <<"Flags">>
    ELSE IF ~Contains(a.attributes, "Uid") THEN <<"Uid">> \o a.attributes
    ELSE a.attributes

\* ids.sort_unstable_by_key(seqnum): the ids in the order of their sequence
\* numbers.
RECURSIVE SortedBySeqnum(_)
SortedBySeqnum(ids) ==
    IF ids = <<>> THEN <<>>
    ELSE LET first == CHOOSE i \in DOMAIN ids :
                          \A j \in DOMAIN ids : Seqnum(ids[i]) <= Seqnum(ids[j])
         IN <<ids[first]>>
            \o SortedBySeqnum(SelectSeq(ids, LAMBDA id : id # ids[first]))

\* fetch() is called with arguments a. A VANISHED that is not allowed ends
\* the command with Bad before anything else; otherwise the mailbox is
\* synchronized, the ids are resolved and sorted, and the loop starts.
StartFetch(s, a) ==
    /\ pc[s] \in {"idle", "done", "error", "bad"}
    /\ LET bad == VanishedRejected(a)
           ids == SortedBySeqnum(a.ids)
       IN IF bad # None
            THEN /\ pc' = [pc EXCEPT ![s] = "bad"]
                 /\ response' = [response EXCEPT ![s] = bad[1]]
                 /\ arguments' = [arguments EXCEPT ![s] = a]
                 /\ history' = [history EXCEPT ![s] = NoHistory]
            ELSE /\ pc' = [pc EXCEPT ![s] =
                              IF ids = <<>> THEN "done" ELSE "f_read"]
                 /\ response' = [response EXCEPT ![s] = Completed]
                 /\ arguments' = [arguments EXCEPT ![s] =
                        [a EXCEPT !.ids = ids, !.attributes = WithUid(a)]]
                 /\ history' = [history EXCEPT ![s] =
                        [NoHistory EXCEPT !.synchronized = TRUE]]
    /\ ncommands' = ncommands + 1
    /\ pos' = [pos EXCEPT ![s] = 1]
    /\ try_count' = [try_count EXCEPT ![s] = 0]
    /\ data' = [data EXCEPT ![s] = NoData]
    /\ changelog' = [changelog EXCEPT ![s] = NewChangeLog]
    /\ changed_mailboxes' = [changed_mailboxes EXCEPT ![s] = {}]
    /\ items' = [items EXCEPT ![s] = <<>>]
    /\ outcome' = [outcome EXCEPT ![s] = <<>>]
    /\ can_spam_train' = [can_spam_train EXCEPT ![s] = FALSE]
    /\ sent' = [sent EXCEPT ![s] = <<>>]
    /\ set_seen_ids' = [set_seen_ids EXCEPT ![s] = <<>>]
    /\ UNCHANGED <<storeVars, initial, mailbox, is_condstore, walk, writes>>

\* ------------------------------------------------ the message structure

\* Bytes are numbers (ASCII where they are text).

\* ArchivedMessagePart: the type of the part, the indexes of the children
\* of a Multipart (into the parts of its message, from 0), the message
\* nested in a Message part, the offsets of header, body and end in the raw
\* bytes of its message, the headers (name, and the offsets of the value), and
\* the mark of a content that could not be decoded.
NoMessage == [parts |-> <<>>]
MessagePart(body, sub_parts, nested, offsets, headers, is_encoding_problem) ==
    [body |-> body, sub_parts |-> sub_parts, nested |-> nested,
     offset_header |-> offsets[1], offset_body |-> offsets[2],
     offset_end |-> offsets[3], headers |-> headers,
     is_encoding_problem |-> is_encoding_problem]
Header(name, offset_start, offset_end) ==
    [name |-> name, offset_start |-> offset_start, offset_end |-> offset_end]
Leaf(body, offsets, headers, is_encoding_problem) ==
    MessagePart(body, <<>>, NoMessage, offsets, headers, is_encoding_problem)

\* Header names: To, cc, Content-ID, Subject.
NameTo == <<84, 111>>
NameContentId == <<67, 111, 110, 116, 101, 110, 116, 45, 73, 68>>
NameSubject == <<83, 117, 98, 106, 101, 99, 116>>

\* email.contents of the two messages. Message 1 is multipart: a text, a
\* message/rfc822 whose nested message is a multipart of two texts, and a
\* binary part that could not be decoded. Message 2 is one text part with
\* three headers.
Contents(id) ==
    LET NestedMessage ==
            [parts |-> <<
                MessagePart("Multipart", <<1, 2>>, NoMessage, <<0, 1, 5>>,
                            <<Header(NameSubject, 0, 1)>>, FALSE),
                Leaf("Text", <<1, 2, 3>>, <<Header(NameContentId, 1, 2)>>, FALSE),
                Leaf("Html", <<3, 4, 5>>, <<>>, FALSE) >>]
    IN
    IF id = 1
      THEN [parts |-> <<
               MessagePart("Multipart", <<1, 2, 3>>, NoMessage, <<0, 2, 12>>,
                           <<Header(NameTo, 0, 1), Header(NameSubject, 1, 2)>>,
                           FALSE),
               Leaf("Text", <<2, 3, 5>>, <<Header(NameContentId, 2, 3)>>, FALSE),
               MessagePart("Message", <<>>, NestedMessage, <<5, 6, 11>>,
                           <<Header(NameContentId, 5, 6)>>, FALSE),
               Leaf("Binary", <<11, 11, 12>>, <<>>, TRUE) >>]
      ELSE [parts |-> <<
               Leaf("Text", <<0, 6, 8>>,
                    <<Header(NameTo, 0, 2), Header(<<99, 99>>, 2, 4),
                      Header(NameContentId, 4, 6)>>, FALSE) >>]

\* The raw bytes of a message, one buffer for each message scope: the
\* message itself and the message nested in it.
RawMessages(id) ==
    IF id = 1 THEN << [i \in 1..12 |-> 100 + i], [i \in 1..5 |-> 150 + i] >>
    ELSE << [i \in 1..8 |-> 200 + i] >>

\* decoded.raw_message_section_arch(message_id, from, to): the bytes
\* from..to of the buffer of that message scope, when there are such.
raw_message_section_arch(raw, message_id, from, to) ==
    IF /\ message_id + 1 \in DOMAIN raw
       /\ from <= to
       /\ to <= Len(raw[message_id + 1])
      THEN Some(SubSeq(raw[message_id + 1], from + 1, to))
      ELSE None

\* Option::unwrap_or_default of a byte slice.
unwrap_or_default(option) == IF option = None THEN <<>> ELSE option[1]

\* decoded.binary_part(message_id, part_id) and decoded.part(..): the decoded
\* body of the part with that index in that message scope.
RECURSIVE MessageAt(_, _)
MessageAt(message, message_id) ==
    IF message_id = 0 THEN Some(message)
    ELSE LET nested == {i \in DOMAIN message.parts :
                            message.parts[i].body = "Message"}
         IN IF nested = {} THEN None
            ELSE MessageAt(message.parts[CHOOSE i \in nested : TRUE].nested,
                           message_id - 1)
binary_part(message, raw, message_id, part_id) ==
    LET scope == MessageAt(message, message_id)
    IN IF scope = None \/ part_id + 1 \notin DOMAIN scope[1].parts THEN None
       ELSE LET part == scope[1].parts[part_id + 1]
                body == raw_message_section_arch(raw, message_id,
                                                 part.offset_body, part.offset_end)
            IN IF body = None THEN None
               ELSE Some([i \in DOMAIN body[1] |-> body[1][i] + 1000])

\* The width of the start and the length of a partial range (u32), scaled
\* down, and the numbers of that width.
PartialBits == 4
U32_RANGE == 2 ^ PartialBits

Min(a, b) == IF a < b THEN a ELSE b

\* get_partial_bytes: bytes.get(start..min(start + end, len)), the sum in
\* the width of u32 (wrapping, as the release build computes it), or all
\* bytes without a partial range. A range that is not in the slice gives
\* the empty default.
get_partial_bytes(bytes, partial) ==
    IF partial = None THEN bytes
    ELSE LET start == partial[1][1]
             to == Min((start + partial[1][2]) % U32_RANGE, Len(bytes))
         IN IF start <= to THEN SubSeq(bytes, start + 1, to) ELSE <<>>

\* Section: Part { num }, Header, HeaderFields { not, fields }, Text, Mime.
SectionKinds == {"Part", "Header", "HeaderFields", "Text", "Mime"}
SectionPart(num) == [kind |-> "Part", num |-> num, not |-> FALSE, fields |-> {}]
SectionOf(kind) == [kind |-> kind, num |-> 0, not |-> FALSE, fields |-> {}]
SectionHeaderFields(not, fields) ==
    [kind |-> "HeaderFields", num |-> 0, not |-> not, fields |-> fields]

root_part(message) == message.parts[1]
is_message(part) == part.body = "Message"
saturating_sub(a, b) == IF a >= b THEN a - b ELSE 0

\* The part a path segment selects: the child of a Multipart with index
\* num.saturating_sub(1), or the part itself for the segment 1 on a part
\* without children when the segment is the last one or the part a Message.
SelectPart(message, part, num, is_last) ==
    IF part.body = "Multipart"
      THEN LET index == saturating_sub(num, 1)
           IN IF /\ index + 1 \in DOMAIN part.sub_parts
                 /\ part.sub_parts[index + 1] + 1 \in DOMAIN message.parts
                THEN Some(message.parts[part.sub_parts[index + 1] + 1])
                ELSE None
    ELSE IF num = 1 /\ (is_last \/ is_message(part)) THEN Some(part)
    ELSE None

\* The kinds of a following section before which the traversal enters the
\* message nested in a Message part: in body_section a Part, Header,
\* HeaderFields or Text; in binary and binary_size any (they are all parts).
AnySectionFollows == SectionKinds
BodySectionFollows == {"Part", "Header", "HeaderFields", "Text"}
BinaryFollows == SectionKinds

\* The traversal of the leading Part sections, as the three functions do
\* it: the part each segment selected and the position after the segment
\* (message, message_id, part, part_id), whether a segment selected nothing,
\* and the first section not traversed.
\* part_id is kept by binary and binary_size only, each in its way.
StartOfTraversal(message) ==
    [message |-> message, message_id |-> 0, part |-> root_part(message),
     part_id |-> 0]
RECURSIVE Traverse(_, _, _, _, _, _)
Traverse(nav, sections, i, follows, variant, trace) ==
    IF i > Len(sections) \/ sections[i].kind # "Part"
      THEN [trace |-> trace, found |-> TRUE, at |-> i, nav |-> nav]
    ELSE LET num == sections[i].num
             selected == SelectPart(nav.message, nav.part, num,
                                    i = Len(sections))
             index == saturating_sub(num, 1)
             part_id == CASE variant = "binary" ->
                               IF nav.part.body = "Multipart" THEN index ELSE 0
                          [] variant = "binary_size" -> index
                          [] OTHER -> 0
             descends == /\ selected # None
                         /\ is_message(selected[1])
                         /\ i < Len(sections)
                         /\ sections[i + 1].kind \in follows
             next == IF descends
                       THEN [message |-> selected[1].nested,
                             message_id |-> nav.message_id + 1,
                             part |-> root_part(selected[1].nested),
                             part_id |-> IF variant = "binary_size" THEN 0
                                         ELSE part_id]
                       ELSE [nav EXCEPT !.part = selected[1],
                                        !.part_id = part_id]
         IN IF selected = None
              THEN [trace |-> trace, found |-> FALSE, at |-> i, nav |-> nav]
              ELSE Traverse(next, sections, i + 1, follows, variant,
                            Append(trace, [selected |-> selected[1],
                                           message_id |-> next.message_id,
                                           part |-> next.part,
                                           part_id |-> next.part_id]))

\* u8::eq_ignore_ascii_case on header names.
eq_ignore_ascii_case(a, b) ==
    LET LowerByte(c) == IF c >= 65 /\ c <= 90 THEN c + 32 ELSE c
    IN /\ Len(a) = Len(b)
       /\ \A i \in DOMAIN a : LowerByte(a[i]) = LowerByte(b[i])

\* name.is_mime_header() || name.starts_with("Content-")
ContentPrefix == <<67, 111, 110, 116, 101, 110, 116, 45>>
IsMimeHeader(name) ==
    \/ eq_ignore_ascii_case(name, <<77, 73, 77, 69, 45, 86, 101, 114, 115, 105,
                                   111, 110>>)
    \/ /\ Len(name) >= Len(ContentPrefix)
       /\ eq_ignore_ascii_case(SubSeq(name, 1, Len(ContentPrefix)), ContentPrefix)

\* The header block of HEADER.FIELDS, HEADER.FIELDS.NOT and MIME: name, colon
\* and raw value of each header that is kept, in the order of the part, and
\* a blank line.
RECURSIVE HeaderLines(_, _, _)
HeaderLines(headers, raw, message_id) ==
    IF headers = <<>> THEN <<>>
    ELSE Head(headers).name \o <<58>>
         \o unwrap_or_default(
              raw_message_section_arch(raw, message_id,
                  Head(headers).offset_start, Head(headers).offset_end))
         \o HeaderLines(Tail(headers), raw, message_id)

KeepsExactCase(not, fields, name) == (name \in fields) # not
KeepsHeader(not, fields, name) ==
    (\E f \in fields : eq_ignore_ascii_case(name, f)) # not

\* Option::map of get_partial_bytes.
Clamped(section, partial) ==
    IF section = None THEN None
    ELSE Some(get_partial_bytes(section[1], partial))

\* body_section(): the whole message without sections; else the traversal
\* and the section at which it ends, or the body of the part.
WholeBody(message, raw, partial) ==
    Clamped(raw_message_section_arch(raw, 0, root_part(message).offset_body,
                                     root_part(message).offset_end), partial)
WholeMessage(message, raw, partial) ==
    Clamped(raw_message_section_arch(raw, 0, root_part(message).offset_header,
                                     root_part(message).offset_end), partial)
body_section(message, raw, sections, partial) ==
    IF sections = <<>> THEN WholeMessage(message, raw, partial)
    ELSE LET t == Traverse(StartOfTraversal(message), sections, 1,
                           BodySectionFollows, "section", <<>>)
             part == t.nav.part
             message_id == t.nav.message_id
         IN IF ~t.found THEN None
            ELSE IF t.at > Len(sections)
              THEN Clamped(raw_message_section_arch(raw, message_id,
                               part.offset_body, part.offset_end), partial)
            ELSE LET section == sections[t.at]
                 IN CASE section.kind = "Header" ->
                           Clamped(raw_message_section_arch(raw, message_id,
                                       part.offset_header, part.offset_body),
                                   partial)
                      [] section.kind = "Text" ->
                           Clamped(raw_message_section_arch(raw, message_id,
                                       part.offset_body, part.offset_end),
                                   partial)
                      [] section.kind = "HeaderFields" ->
                           Some(get_partial_bytes(
                               HeaderLines(
                                   SelectSeq(part.headers,
                                       LAMBDA header :
                                           KeepsHeader(section.not, section.fields,
                                                       header.name)),
                                   raw, message_id) \o <<13, 10>>,
                               partial))
                      [] OTHER ->
                           Some(get_partial_bytes(
                               HeaderLines(
                                   SelectSeq(part.headers,
                                       LAMBDA header : IsMimeHeader(header.name)),
                                   raw, message_id) \o <<13, 10>>,
                               partial))

\* binary(): Err(()) for a part with an encoding problem, Ok(None) when the
\* path selects nothing, else Ok(Some(contents)).
IgnoresEncodingProblem(part) == FALSE
HasEncodingProblem(part) == part.is_encoding_problem
Ok(x) == [ok |-> TRUE, value |-> x]
Err == [ok |-> FALSE, value |-> None]
binary(message, raw, sections, partial) ==
    LET t == Traverse(StartOfTraversal(message), sections, 1, BinaryFollows,
                      "binary", <<>>)
        part == t.nav.part
        message_id == t.nav.message_id
    IN IF ~t.found THEN Ok(None)
       ELSE IF HasEncodingProblem(part) THEN Err
       ELSE CASE part.body \in {"Text", "Html", "Binary", "InlineBinary"} ->
                   Ok(Some(get_partial_bytes(
                       unwrap_or_default(binary_part(message, raw, message_id,
                                                     t.nav.part_id)),
                       partial)))
              [] part.body = "Message" ->
                   Ok(Some(get_partial_bytes(
                       unwrap_or_default(raw_message_section_arch(raw,
                           message_id, root_part(part.nested).offset_header,
                           root_part(part.nested).offset_end)),
                       partial)))
              [] OTHER ->
                   Ok(Some(get_partial_bytes(
                       unwrap_or_default(raw_message_section_arch(raw,
                           message_id, part.offset_header, part.offset_end)),
                       partial)))

\* binary_size(): the length of the decoded part, or the raw length of a
\* Message or Multipart.
binary_size(message, raw, sections) ==
    LET t == Traverse(StartOfTraversal(message), sections, 1, BinaryFollows,
                      "binary_size", <<>>)
        part == t.nav.part
        raw_len(p) == saturating_sub(p.offset_end, p.offset_header)
    IN IF ~t.found THEN None
       ELSE CASE part.body \in {"Text", "Html", "Binary", "InlineBinary"} ->
                   Some(Len(unwrap_or_default(
                       binary_part(message, raw, t.nav.message_id,
                                   t.nav.part_id))))
              [] part.body = "Message" -> Some(raw_len(root_part(part.nested)))
              [] OTHER -> Some(raw_len(part))

\* set_seen_flag: the FETCH sets Seen on a message that does not have it.
SetSeenFlag(a, keywords) == SetSeenFlags(a) /\ "Seen" \notin keywords

\* raw_message: the blob when it is needed, else email.raw_headers, the
\* bytes of the message up to its body.
RawOf(a, id) ==
    IF NeedsBlobs(a) THEN RawMessages(id)
    ELSE << SubSeq(RawMessages(id)[1], 1, root_part(Contents(id)).offset_body) >>

\* One arm of the match on the attribute: the item it pushes, if any.
PushItem(attribute, option) ==
    IF option = None THEN <<>> ELSE << <<attribute, option[1]>> >>
ItemOf(attribute, a, id, keywords, set_seen_flag) ==
    LET message == Contents(id)
        raw == RawOf(a, id)
    IN CASE attribute = "Flags" ->
                << <<"Flags", IF set_seen_flag THEN keywords \cup {"Seen"}
                              ELSE keywords>> >>
         [] attribute = "Uid" -> << <<"Uid", Uid(id)>> >>
         [] attribute \in {"Rfc822", "Rfc822Text"} -> << <<attribute, raw[1]>> >>
         [] attribute = "Rfc822Header" ->
                PushItem(attribute,
                         raw_message_section_arch(raw, 0,
                             root_part(message).offset_header,
                             root_part(message).offset_body))
         [] attribute \in {"BodySection", "BodyPeek"} ->
                PushItem(attribute,
                         body_section(message, raw, a.sections, a.partial))
         [] attribute = "BodyHeader" ->
                PushItem(attribute,
                         body_section(message, raw,
                             <<[kind |-> "Header", num |-> 0, not |-> FALSE,
                                fields |-> {}]>>, None))
         [] attribute \in {"Binary", "BinaryPeek"} ->
                LET contents == binary(message, raw, a.sections, a.partial)
                IN IF contents.ok THEN PushItem(attribute, contents.value)
                   ELSE <<>>
         [] attribute = "BinarySize" ->
                PushItem(attribute, binary_size(message, raw, a.sections))
         [] OTHER -> << <<attribute, id>> >>

\* "Build response": the data items of a message in the order of the
\* attributes, and "Add flags to the response if the message was unseen".
RECURSIVE DataItems(_, _, _, _, _)
DataItems(attributes, a, id, keywords, set_seen_flag) ==
    IF attributes = <<>> THEN <<>>
    ELSE ItemOf(Head(attributes), a, id, keywords, set_seen_flag)
         \o DataItems(Tail(attributes), a, id, keywords, set_seen_flag)

AppendsFlagsAlways(a, id, keywords) ==
    LET set_seen_flag == SetSeenFlag(a, keywords)
    IN [id |-> id, seqnum |-> Seqnum(id),
        items |-> DataItems(a.attributes, a, id, keywords, set_seen_flag)
                  \o (IF set_seen_flag
                        THEN << <<"Flags", keywords \cup {"Seen"}>> >>
                        ELSE <<>>)]
FetchedItem(a, id, keywords) ==
    LET set_seen_flag == SetSeenFlag(a, keywords)
    IN [id |-> id, seqnum |-> Seqnum(id),
        items |-> DataItems(a.attributes, a, id, keywords, set_seen_flag)
                  \o (IF set_seen_flag /\ ~Contains(a.attributes, "Flags")
                        THEN << <<"Flags", keywords \cup {"Seen"}>> >>
                        ELSE <<>>)]

\* write_error of the BINARY[...] that cannot be decoded: one error with the
\* code UNKNOWN-CTE for each such attribute, written when the attribute is
\* met, before the item of the message.
RECURSIVE DecodeErrors(_, _, _)
DecodeErrors(attributes, a, id) ==
    IF attributes = <<>> THEN <<>>
    ELSE (IF /\ Head(attributes) \in {"Binary", "BinaryPeek"}
             /\ ~binary(Contents(id), RawOf(a, id), a.sections, a.partial).ok
            THEN << [id |-> id, seqnum |-> Seqnum(id),
                     error |-> "UnknownCte"] >>
            ELSE <<>>)
         \o DecodeErrors(Tail(attributes), a, id)

\* get_partial_bytes is reached with a start and a length whose sum does not
\* fit: the build with overflow checks panics there.
ReachesOverflow(a, id) ==
    /\ a.partial # None /\ a.partial[1][1] + a.partial[1][2] >= U32_RANGE
    /\ \E i \in DOMAIN a.attributes :
          \/ /\ a.attributes[i] \in {"BodySection", "BodyPeek"}
             /\ body_section(Contents(id), RawOf(a, id), a.sections, None) # None
          \/ /\ a.attributes[i] \in {"Binary", "BinaryPeek"}
             /\ binary(Contents(id), RawOf(a, id), a.sections, None).value # None

\* What the FETCH has done with the current message, for the properties.
Fetched(s, kind) == [id |-> CurrentId(s), result |-> kind]

\* The same for a message that was sent, with the traversal each BODY[...],
\* BINARY[...] and BINARY.SIZE[...] of the command has made.
TraversalOf(attribute, a, id) ==
    CASE attribute \in {"BodySection", "BodyPeek"} ->
             Traverse(StartOfTraversal(Contents(id)), a.sections, 1,
                      BodySectionFollows, "section", <<>>).trace
      [] attribute \in {"Binary", "BinaryPeek"} ->
             Traverse(StartOfTraversal(Contents(id)), a.sections, 1,
                      BinaryFollows, "binary", <<>>).trace
      [] attribute = "BinarySize" ->
             Traverse(StartOfTraversal(Contents(id)), a.sections, 1,
                      BinaryFollows, "binary_size", <<>>).trace
      [] OTHER -> <<>>

\* The end of one iteration of "Process each message" (also by continue):
\* the next id, or after the last one "Set Seen ids" when there are any.
FetchNext(s, result, seen) ==
    LET last == pos[s] = Len(arguments[s].ids)
    IN /\ outcome' = [outcome EXCEPT ![s] = Append(@, result)]
       /\ set_seen_ids' = [set_seen_ids EXCEPT ![s] = @ \o seen]
       /\ pos' = [pos EXCEPT ![s] = @ + 1]
       /\ data' = [data EXCEPT ![s] = NoData]
       /\ pc' = [pc EXCEPT ![s] =
                    IF ~last THEN "f_read"
                    ELSE IF set_seen_ids[s] \o seen # <<>> THEN "f_begin"
                    ELSE "done"]

\* "Obtain attributes and keywords": the metadata and the keywords of the
\* message are read; a message that is not found is passed over.
MissingEndsFetch(s) ==
    /\ outcome' = [outcome EXCEPT ![s] = Append(@, Fetched(s, "missing"))]
    /\ pc' = [pc EXCEPT ![s] = "done"]
    /\ UNCHANGED <<set_seen_ids, pos, data>>
MessageNotFound(s) == FetchNext(s, Fetched(s, "missing"), <<>>)

FetchRead(s) ==
    /\ pc[s] = "f_read"
    /\ IF CurrentId(s) \in deleted
         THEN MessageNotFound(s) /\ UNCHANGED sent
         ELSE /\ data' = [data EXCEPT ![s] = email[CurrentId(s)]]
              /\ pc' = [pc EXCEPT ![s] =
                           IF NeedsBlobs(arguments[s]) THEN "f_blob" ELSE "f_item"]
              /\ UNCHANGED <<outcome, set_seen_ids, pos, sent>>
    /\ UNCHANGED <<storeVars, arguments, try_count, changelog,
                   changed_mailboxes, response, items, can_spam_train,
                   initial, mailbox, is_condstore, walk, writes, history, ncommands>>

\* "Fetch and parse blob": the raw message is fetched from the blob store,
\* which finds it or does not; without it the message is passed over.
BlobNotFoundSetsSeen(s) ==
    FetchNext(s, Fetched(s, "no_blob"),
              IF SetSeenFlag(arguments[s], data[s].keywords)
                THEN << [id |-> CurrentId(s), keywords |-> data[s].keywords] >>
                ELSE <<>>)
BlobNotFound(s) == FetchNext(s, Fetched(s, "no_blob"), <<>>)

FetchBlob(s) ==
    /\ pc[s] = "f_blob"
    /\ \E found \in BOOLEAN :
          IF found
            THEN /\ pc' = [pc EXCEPT ![s] = "f_item"]
                 /\ UNCHANGED <<outcome, set_seen_ids, pos, data>>
            ELSE BlobNotFound(s)
    /\ history' = [history EXCEPT ![s].blobs = Append(@, CurrentId(s))]
    /\ UNCHANGED <<storeVars, arguments, try_count, changelog,
                   changed_mailboxes, response, items, can_spam_train, sent,
                   initial, mailbox, is_condstore, walk, writes, ncommands>>

\* The thread id is read when it is needed (a message without it is passed
\* over), the item of the message is built and written to the client, and a
\* message that is to become Seen is added to set_seen_ids with the keywords
\* read.
SendItem(s) ==
    /\ pc[s] = "f_item"
    /\ LET a == arguments[s]
           id == CurrentId(s)
           keywords == data[s].keywords
           set_seen_flag == SetSeenFlag(a, keywords)
       IN IF (NeedsThreadId(a) \/ set_seen_flag) /\ id \in deleted
            THEN MessageNotFound(s) /\ UNCHANGED sent
            ELSE \E overflow_checks \in
                       IF ReachesOverflow(a, id) THEN BOOLEAN ELSE {FALSE} :
                   IF overflow_checks
                     THEN /\ pc' = [pc EXCEPT ![s] = "panic"]
                          /\ UNCHANGED <<sent, outcome, set_seen_ids, pos, data>>
                     ELSE /\ sent' = [sent EXCEPT ![s] =
                                 @ \o DecodeErrors(a.attributes, a, id)
                                   \o <<FetchedItem(a, id, keywords)>>]
                          /\ FetchNext(s,
                                 [id |-> id, result |-> "sent",
                                  traversals |->
                                      [i \in DOMAIN a.attributes |->
                                          TraversalOf(a.attributes[i], a, id)]],
                                 IF set_seen_flag
                                   THEN << [id |-> id, keywords |-> keywords] >>
                                   ELSE <<>>)
    /\ UNCHANGED <<storeVars, arguments, try_count, changelog,
                   changed_mailboxes, response, items, can_spam_train,
                   initial, mailbox, is_condstore, walk, writes, history, ncommands>>

\* "Set Seen ids": begin_changes opens the change log of the FETCH, with its
\* change id taken from the account's change counter.
BeginChanges(s) ==
    /\ pc[s] = "f_begin"
    /\ change_counter' = assign_change_id(change_counter)
    /\ changelog' = [changelog EXCEPT ![s] =
           [NewChangeLog EXCEPT !.change_id = assign_change_id(change_counter)]]
    /\ history' = [history EXCEPT ![s].assigned = @ + 1]
    /\ pos' = [pos EXCEPT ![s] = 1]
    /\ pc' = [pc EXCEPT ![s] = "f_seen"]
    /\ UNCHANGED <<email, change_log, state_changes, deleted, tasks, arguments,
                   try_count, data, changed_mailboxes, response, items,
                   can_spam_train, fetchLocals, initial, mailbox, is_condstore, walk, writes, outcome,
                   ncommands>>

\* assert_value(Property::Keywords, &keywords): the write asserts the
\* keywords the FETCH read for the message.
KeywordsAsserted(entry) ==
    entry.id \notin deleted /\ email[entry.id].keywords = entry.keywords

\* One message of set_seen_ids: Seen is added to the keywords read and
\* written with the change id, provided the keywords are still the ones read;
\* the update is logged. A rejected write is passed over. After the last
\* message a change log that is not empty is committed.
SetSeen(s) ==
    /\ pc[s] = "f_seen"
    /\ LET entry == set_seen_ids[s][pos[s]]
           id == entry.id
           last == pos[s] = Len(set_seen_ids[s])
           cl == IF KeywordsAsserted(entry)
                   THEN [changelog[s] EXCEPT !.updates = @ \cup {id}]
                   ELSE changelog[s]
       IN /\ IF KeywordsAsserted(entry)
               THEN /\ email' = [email EXCEPT ![id] =
                           [keywords |-> entry.keywords \cup {"Seen"},
                            change_id |-> changelog[s].change_id]]
                    /\ writes' = [writes EXCEPT ![id] = @ + 1]
               ELSE UNCHANGED <<email, writes>>
          /\ changelog' = [changelog EXCEPT ![s] = cl]
          /\ pos' = [pos EXCEPT ![s] = @ + 1]
          /\ pc' = [pc EXCEPT ![s] =
                       IF ~last THEN "f_seen"
                       ELSE IF is_empty(cl) THEN "done" ELSE "commit"]
    /\ UNCHANGED <<change_counter, change_log, state_changes, deleted, tasks,
                   arguments, try_count, data, changed_mailboxes, response,
                   items, can_spam_train, fetchLocals, initial, mailbox, is_condstore, walk, history,
                   outcome, ncommands>>

\* Another client deletes a message: its data is gone and the deletion is
\* logged under a new change id.
DeleteRecord(id) ==
    /\ id \notin deleted
    /\ deleted' = deleted \cup {id}
    /\ change_counter' = assign_change_id(change_counter)
    /\ change_log' = Append(change_log,
           [change_id |-> assign_change_id(change_counter), updates |-> {},
            child_updates |-> MailboxesOf(id), deletes |-> {id},
            inserts |-> {}])
    /\ UNCHANGED <<email, state_changes, tasks, pc, arguments, pos, try_count,
                   data, changelog, changed_mailboxes, response, items,
                   can_spam_train, fetchLocals, initial, mailbox, is_condstore, walk, writes, history,
                   outcome, ncommands>>

\* --------------------------------------------------------- specifications

\* Sessions issue STORE commands concurrently. Session 1 has CONDSTORE
\* enabled and uses every operation in both the loud and the .SILENT form;
\* session 2 has not, and sets and adds keywords.
Start(s) ==
    /\ ncommands < MaxCommands
    /\ \E a \in
          (Arguments(IF s = 1 THEN Operations ELSE Operations \ {"Clear"},
                     {{"Seen"}, {"Flagged"}}, {<<1>>, <<1, 2>>},
                     IF s = 1 THEN BOOLEAN ELSE {FALSE}, {s = 1})) :
          StartStore(s, a)

Next ==
    \E s \in Sessions :
        \/ Start(s)
        \/ ReadRecord(s)
        \/ AssignChangeId(s)
        \/ WriteAccepted(s)
        \/ WriteRejected(s)
        \/ CommitChanges(s)
        \/ BroadcastStateChange(s)
        \/ BackendError(s)
        \/ Abort(s)

Spec == Init /\ [][Next]_vars

\* Two sessions, each with one STORE +FLAGS on message 1, the keywords of the
\* two commands disjoint, message 1 holding any keywords before.
StartAdd(s) ==
    /\ pc[s] = "idle"
    /\ \E a \in Arguments({"Add"}, SUBSET Keywords, {<<1>>}, BOOLEAN, BOOLEAN) :
          /\ \A t \in Sessions \ {s} :
                pc[t] # "idle" => a.keywords \cap arguments[t].keywords = {}
          /\ StartStore(s, a)

NextConflict ==
    \E s \in Sessions :
        \/ StartAdd(s)
        \/ StoreDenied(s)
        \/ ReadRecord(s)
        \/ AssignChangeId(s)
        \/ WriteAccepted(s)
        \/ WriteRejected(s)
        \/ CommitChanges(s)
        \/ BroadcastStateChange(s)

SpecConflict ==
    /\ \E k \in SUBSET Keywords :
          InitWith([id \in Records |-> IF id = 1 THEN k ELSE {}])
    /\ [][NextConflict]_vars

\* Contention: session 1 runs one STORE that changes Flagged on one or two
\* messages, while the other session keeps changing Seen on message 1, often
\* enough to reject every attempt of session 1 on it.
StartSubject(s) ==
    /\ s = 1
    /\ pc[s] = "idle"
    /\ \E a \in
          (Arguments({"Set", "Add"}, {{"Flagged"}}, {<<1>>, <<1, 2>>, <<2, 1>>},
                     BOOLEAN, {TRUE})) :
          StartStore(s, a)

StartContender(s) ==
    /\ s # 1
    /\ ncommands < MAX_RETRIES + 2
    /\ \E a \in
          (Arguments({"Add", "Clear"}, {{"Seen"}}, {<<1>>}, {FALSE}, {FALSE})) :
          StartStore(s, a)

NextContention ==
    \E s \in Sessions :
        \/ StartSubject(s)
        \/ StartContender(s)
        \/ ReadRecord(s)
        \/ AssignChangeId(s)
        \/ WriteAccepted(s)
        \/ WriteRejected(s)
        \/ CommitChanges(s)
        \/ BroadcastStateChange(s)

SpecContention == Init /\ [][NextContention]_vars

\* UNCHANGEDSINCE: session 2 changes messages and another client deletes
\* them, and session 1 runs one STORE with UNCHANGEDSINCE, by sequence number
\* or by UID, over messages in any order of the id map.
StartSince(s) ==
    /\ s = 1
    /\ pc[s] = "idle"
    /\ \E a \in
          ([operation : {"Add"}, keywords : {{"Flagged"}},
            ids : {<<1, 2>>, <<2, 1>>}, is_silent : {FALSE},
            is_condstore : {TRUE}, unchanged_since : {Some(1), Some(2)},
            is_uid : BOOLEAN, missing : {{}, {7}}]) :
          StartStore(s, a)

StartPrior(s) ==
    /\ s # 1
    /\ ncommands < MaxCommands
    /\ \E a \in
          (Arguments({"Add"}, {{"Seen"}}, {<<1>>, <<2>>}, {FALSE}, {FALSE})) :
          StartStore(s, a)

Delete(s) ==
    /\ s # 1
    /\ Cardinality(deleted) < MaxDeleted
    /\ \E id \in Records : DeleteRecord(id)

NextSince ==
    \E s \in Sessions :
        \/ StartSince(s)
        \/ StartPrior(s)
        \/ Delete(s)
        \/ ReadRecord(s)
        \/ AssignChangeId(s)
        \/ WriteAccepted(s)
        \/ WriteRejected(s)
        \/ CommitChanges(s)
        \/ BroadcastStateChange(s)

SpecSince == Init /\ [][NextSince]_vars

\* Spam-filter training: each session runs one STORE of the Junk and NotJunk
\* keywords on message 1, for an account that can train or cannot.
StartTrain(s) ==
    /\ pc[s] = "idle"
    /\ \E can_train \in BOOLEAN, a \in
          (Arguments(Operations, {{"Junk"}, {"NotJunk"}, {"Junk", "NotJunk"}},
                     {<<1>>}, {FALSE}, {FALSE})) :
          StartStoreWith(s, a, can_train)

NextTrain ==
    \E s \in Sessions :
        \/ StartTrain(s)
        \/ ReadRecord(s)
        \/ AssignChangeId(s)
        \/ WriteAccepted(s)
        \/ WriteRejected(s)
        \/ CommitChanges(s)
        \/ BroadcastStateChange(s)

SpecTrain ==
    /\ \E k \in {{}, {"Junk"}, {"NotJunk"}, {"Junk", "Seen"}} :
          InitWith([id \in Records |-> IF id = 1 THEN k ELSE {}])
    /\ [][NextTrain]_vars

\* FETCH: session 1 runs one FETCH over both messages, of a mailbox selected
\* or examined and with or without the right to modify its messages, while
\* session 2 adds Seen or Flagged to message 1 with STORE and another client
\* deletes messages; store operations may fail.
StartSubjectFetch(s) ==
    /\ s = 1
    /\ pc[s] = "idle"
    /\ \E a \in
          (FetchArguments({<<"Flags">>, <<"Rfc822">>, <<"Flags", "BodySection">>,
                           <<"Body", "ThreadId">>, <<"BodyPeek">>},
                          {<<1, 2>>, <<2, 1>>}, BOOLEAN, BOOLEAN, BOOLEAN, BOOLEAN,
                          BOOLEAN)) :
          StartFetch(s, a)

StartRival(s) ==
    /\ s # 1
    /\ pc[s] = "idle"
    /\ \E a \in
          (Arguments({"Add"}, {{"Seen"}, {"Flagged"}}, {<<1>>, <<1, 2>>}, {TRUE},
                     {FALSE})) :
          StartStore(s, a)

NextFetch ==
    \E s \in Sessions :
        \/ StartSubjectFetch(s)
        \/ StartRival(s)
        \/ Delete(s)
        \/ FetchRead(s)
        \/ FetchBlob(s)
        \/ SendItem(s)
        \/ BeginChanges(s)
        \/ SetSeen(s)
        \/ ReadRecord(s)
        \/ AssignChangeId(s)
        \/ WriteAccepted(s)
        \/ WriteRejected(s)
        \/ CommitChanges(s)
        \/ BroadcastStateChange(s)
        \/ BackendError(s)

SpecFetch == Init /\ [][NextFetch]_vars

\* handle_fetch: the request is parsed, enabled_condstore is computed from
\* the CONDSTORE state of the session, CHANGEDSINCE and the MODSEQ attribute,
\* and the session has CONDSTORE enabled when it is true; the operation is
\* then spawned. In the condition && binds tighter than ||.
\* These are FETCHes that find no message to fetch: with CHANGEDSINCE over
\* both messages, or without it and a sequence set that resolves to none.
\* was_condstore keeps the state of the session before, for the properties.
HandleFetch(s) ==
    /\ pc[s] \in {"idle", "done"}
    /\ ncommands < MaxCommands + 1
    /\ \E changed_since \in {None, Some(1), Some(2)}, modseq \in BOOLEAN :
          LET enabled == \/ ~is_condstore[s] /\ changed_since # None
                         \/ modseq
          IN /\ arguments' = [arguments EXCEPT ![s] =
                    [attributes |-> IF modseq THEN <<"ModSeq">> ELSE <<"Uid">>,
                     ids |-> IF changed_since = None THEN <<>> ELSE <<1, 2>>,
                     changed_since |-> changed_since,
                     include_vanished |-> FALSE, is_uid |-> FALSE,
                     enabled_condstore |-> enabled,
                     was_condstore |-> is_condstore[s]]]
             /\ is_condstore' = [is_condstore EXCEPT ![s] = @ \/ enabled]
    /\ pc' = [pc EXCEPT ![s] = "spawned"]
    /\ ncommands' = ncommands + 1
    /\ sent' = [sent EXCEPT ![s] = <<>>]
    /\ UNCHANGED <<storeVars, pos, try_count, data, changelog,
                   changed_mailboxes, response, items, can_spam_train,
                   set_seen_ids, initial, mailbox, walk, writes, history,
                   outcome>>

\* fetch() of the spawned operation. With CHANGEDSINCE no id of the command
\* has an Update after it (a Delete puts no id into changed_ids), so the
\* command returns before the loop; without it the loop has no id and the
\* command goes to its end. Both write the untagged OK "Highest Modseq"
\* when enabled_condstore was passed, and the command completes.
FetchNothing(s) ==
    /\ pc[s] = "spawned"
    /\ LET a == arguments[s]
       IN /\ a.changed_since # None =>
                 \A c \in changes(change_log, from_modseq(a.changed_since[1])) :
                     c.kind = "Update" => ~Contains(a.ids, c.id)
          /\ sent' = [sent EXCEPT ![s] =
                 IF a.enabled_condstore
                   THEN << [rtype |-> "Ok", message |-> "Highest Modseq",
                            code |-> Some([kind |-> "HighestModseq"])] >>
                   ELSE <<>>]
    /\ response' = [response EXCEPT ![s] = Completed]
    /\ pc' = [pc EXCEPT ![s] = "done"]
    /\ UNCHANGED <<storeVars, arguments, pos, try_count, data, changelog,
                   changed_mailboxes, items, can_spam_train, set_seen_ids,
                   initial, mailbox, is_condstore, walk, writes, history,
                   outcome, ncommands>>

\* CONDSTORE: both sessions issue FETCHes with and without CHANGEDSINCE and
\* the MODSEQ attribute, one after the other, while another client deletes
\* messages.
NextCondstore ==
    \E s \in Sessions :
        \/ HandleFetch(s)
        \/ FetchNothing(s)
        \/ Delete(s)

SpecCondstore == Init /\ [][NextCondstore]_vars

\* Projection: session 1 runs one FETCH by sequence number over both
\* messages, with attributes that need the raw message and attributes that
\* do not, and with sections that select the part of message 1 that cannot
\* be decoded, its first part, and the header.
StartProject(s) ==
    /\ s = 1
    /\ pc[s] = "idle"
    /\ \E a \in
          (SectionArguments({<<"Flags", "Envelope">>, <<"Rfc822Header">>,
                             <<"BodyHeader">>, <<"BodySection">>, <<"BodyPeek", "Uid">>,
                             <<"Body", "BodyStructure">>, <<"Rfc822">>,
                             <<"Envelope", "Rfc822Text">>,
                             <<"Flags", "BodySection">>,
                             <<"BodySection", "Flags", "Uid">>,
                             <<"Uid", "Binary", "Flags">>,
                             <<"Binary", "BinarySize", "Envelope">>,
                             <<"BinaryPeek">>, <<"Envelope", "BinaryPeek", "BinarySize">>},
                            {<<1, 2>>},
                            {<<SectionPart(3)>>, <<SectionPart(1)>>},
                            {None})
           \cup SectionArguments({<<"BodySection">>, <<"BodyPeek", "Flags">>,
                                  <<"BodySection", "Rfc822">>}, {<<1, 2>>},
                                 {<<SectionOf("Header")>>,
                                  <<SectionHeaderFields(FALSE, {NameTo})>>},
                                 {None})) :
          StartFetch(s, a)

NextProject ==
    \E s \in Sessions :
        \/ StartProject(s)
        \/ FetchRead(s)
        \/ FetchBlob(s)
        \/ SendItem(s)
        \/ BeginChanges(s)
        \/ SetSeen(s)
        \/ CommitChanges(s)
        \/ BroadcastStateChange(s)

SpecProject == Init /\ [][NextProject]_vars

\* Navigation: session 1 runs one FETCH of a BODY.PEEK[...], a
\* BINARY.PEEK[...] or a BINARY.SIZE[...] over both messages, with every
\* path of up to MaxSegments part numbers, each from 0 to one more than the
\* parts of the largest multipart, and every kind of section after it.
RECURSIVE PathsOfLength(_)
PathsOfLength(n) ==
    IF n = 0 THEN {<<>>}
    ELSE {Append(path, SectionPart(num)) :
              path \in PathsOfLength(n - 1), num \in 0..4}
Paths == UNION {PathsOfLength(n) : n \in 0..MaxSegments}
FieldSets == {{}, {NameTo}, {<<67, 67>>, NameContentId}}
StartNavigate(s) ==
    /\ s = 1
    /\ pc[s] = "idle"
    /\ \E a \in
          (SectionArguments({<<"BodyPeek">>}, {<<1, 2>>},
                            {path \o tail :
                                 path \in Paths,
                                 tail \in
                                     {<<>>, <<SectionOf("Header")>>,
                                      <<SectionOf("Text")>>, <<SectionOf("Mime")>>}
                                     \cup {<<SectionHeaderFields(not, fields)>> :
                                               not \in BOOLEAN,
                                               fields \in FieldSets}},
                            {None})
           \cup SectionArguments({<<"BinaryPeek">>, <<"BinarySize">>}, {<<1, 2>>},
                                 Paths, {None})) :
          StartFetch(s, a)

NextNavigate ==
    \E s \in Sessions :
        \/ StartNavigate(s)
        \/ FetchRead(s)
        \/ FetchBlob(s)
        \/ SendItem(s)

SpecNavigate == Init /\ [][NextNavigate]_vars

\* Header fields: session 1 fetches BODY.PEEK[path.HEADER.FIELDS (names)]
\* of one message and session 2 the BODY.PEEK[path.HEADER.FIELDS.NOT (names)].
StartHeaders(s) ==
    /\ pc[s] = "idle"
    /\ \E a \in
          (SectionArguments({<<"BodyPeek">>}, {<<1>>, <<2>>},
                            {path \o <<SectionHeaderFields(s # 1, fields)>> :
                                 path \in {<<>>, <<SectionPart(1)>>, <<SectionPart(2)>>},
                                 fields \in FieldSets \cup {{<<84, 79>>, NameSubject}}},
                            {None})) :
          StartFetch(s, a)

NextHeaders ==
    \E s \in Sessions :
        \/ StartHeaders(s)
        \/ FetchRead(s)
        \/ FetchBlob(s)
        \/ SendItem(s)

SpecHeaders == Init /\ [][NextHeaders]_vars

\* Partial ranges: session 1 fetches BODY.PEEK[]<start.length> and
\* BODY.PEEK[TEXT]<start.length> of both messages with every start and
\* length of the width.
StartPartial(s) ==
    /\ s = 1
    /\ pc[s] = "idle"
    /\ \E a \in
          (SectionArguments({<<"BodyPeek">>}, {<<1, 2>>},
                            {<<>>, <<SectionOf("Text")>>},
                            {Some(<<start, length>>) :
                                 start \in 0..(U32_RANGE - 1),
                                 length \in 0..(U32_RANGE - 1)})) :
          StartFetch(s, a)

NextPartial ==
    \E s \in Sessions :
        \/ StartPartial(s)
        \/ FetchRead(s)
        \/ FetchBlob(s)
        \/ SendItem(s)

SpecPartial == Init /\ [][NextPartial]_vars

\* ----------------------------------------------------- structural summary

\* The structure trees: every message of up to MaxParts parts nested up to
\* MaxDepth deep, a part a text, a multipart of up to MaxChildren parts, or a message/rfc822
\* with a nested message of its own. The parts of a message are stored in
\* the order of the tree, a multipart before its children; the nested
\* message keeps its own parts. Each part has its own offsets.
StructureTrees ==
    LET RECURSIVE Shapes(_, _), Lists(_, _, _), Total(_), TotalOf(_),
                  Flatten(_, _, _), FlattenAll(_, _, _)
        Total(t) == 1 + TotalOf(t.children)
        TotalOf(ts) == IF ts = <<>> THEN 0 ELSE Total(Head(ts)) + TotalOf(Tail(ts))
        Shapes(d, n) ==
            IF d = 0 \/ n = 0 THEN {}
            ELSE {[body |-> "Text", children |-> <<>>]}
                 \cup {[body |-> "Message", children |-> <<c>>] :
                           c \in Shapes(d - 1, n - 1)}
                 \cup {[body |-> "Multipart", children |-> cs] :
                           cs \in UNION {Lists(d - 1, n - 1, k) :
                                             k \in 1..MaxChildren}}
        Lists(d, n, k) ==
            IF k = 0 THEN {<<>>}
            ELSE UNION {{<<t>> \o rest : rest \in Lists(d, n - Total(t), k - 1)} :
                           t \in Shapes(d, n)}
        Flatten(t, base, tag) ==
            LET offsets == <<2 * tag, 2 * tag + 1, 2 * tag + 2>>
            IN CASE t.body = "Message" ->
                      << MessagePart("Message", <<>>,
                                     [parts |-> Flatten(t.children[1], 0, tag + 1)],
                                     offsets, <<>>, FALSE) >>
                 [] t.body = "Multipart" ->
                      LET all == FlattenAll(t.children, base + 1, tag + 1)
                      IN << MessagePart("Multipart", all.ids, NoMessage, offsets,
                                        <<>>, FALSE) >> \o all.parts
                 [] OTHER -> << Leaf("Text", offsets, <<>>, FALSE) >>
        FlattenAll(ts, base, tag) ==
            IF ts = <<>> THEN [parts |-> <<>>, ids |-> <<>>]
            ELSE LET first == Flatten(Head(ts), base, tag)
                     rest == FlattenAll(Tail(ts), base + Len(first),
                                        tag + Total(Head(ts)))
                 IN [parts |-> first \o rest.parts, ids |-> <<base>> \o rest.ids]
    IN {[parts |-> Flatten(t, 0, 0)] : t \in Shapes(MaxDepth, MaxParts)}

\* as_body_part: the BodyPart of the part with index part_id of the message,
\* its size read from the bytes of the message scope message_id between the
\* body and the end of the part. The BodyPart keeps what was read.
as_root_part(message, message_id, part_id) ==
    LET part == message.parts[1]
    IN [body |-> part.body, message_id |-> message_id,
        from |-> part.offset_body, to |-> part.offset_end,
        envelope |-> FALSE, parts |-> <<>>]
as_body_part(message, message_id, part_id) ==
    LET part == message.parts[part_id + 1]
    IN [body |-> part.body, message_id |-> message_id,
        from |-> part.offset_body, to |-> part.offset_end,
        envelope |-> FALSE, parts |-> <<>>]

\* body_structure is called on a message: the stack is empty, the parts to
\* visit are the root of the message, there is no root_part yet.
StartStructure ==
    /\ walk.state = "idle"
    /\ \E tree \in StructureTrees :
          walk' = [state |-> "walking", tree |-> tree, message |-> tree,
                   message_id |-> 0, parts |-> <<0>>, stack |-> <<>>,
                   root_part |-> None, visited |-> <<>>]
    /\ UNCHANGED <<storeVars, pc, arguments, pos, try_count, data, changelog,
                   changed_mailboxes, response, items, can_spam_train,
                   fetchLocals, initial, mailbox, is_condstore, writes, history,
                   outcome, ncommands>>

\* One iteration of "while let Some(part_id) = parts.next()": a Message or
\* a Multipart becomes the root_part, the root_part before it pushed on the
\* stack with the parts left to visit (and, for a Message, the message and
\* its message_id, which is then one more); another part is added to the
\* root_part, or returned when there is none. visited records the BodyPart
\* of the iteration and the height of the stack after it.
VisitPart ==
    /\ walk.state = "walking"
    /\ walk.parts # <<>>
    /\ LET part_id == Head(walk.parts)
           parts == Tail(walk.parts)
           message == walk.message
           body == message.parts[part_id + 1].body
           part == as_body_part(message, walk.message_id, part_id)
           has_root == walk.root_part # None
           frame(prev_message) ==
               [root_part |-> walk.root_part[1], parts |-> parts,
                message |-> prev_message]
           next ==
               CASE body = "Message" ->
                      [walk EXCEPT
                          !.stack = IF has_root
                                      THEN Append(@, frame(Some(<<message,
                                                       walk.message_id>>)))
                                      ELSE @,
                          !.message_id = IF has_root THEN @ + 1 ELSE @,
                          !.root_part = Some([part EXCEPT !.envelope = TRUE]),
                          !.parts = <<0>>,
                          !.message = message.parts[part_id + 1].nested]
                 [] body = "Multipart" ->
                      [walk EXCEPT
                          !.stack = IF has_root THEN Append(@, frame(None))
                                    ELSE @,
                          !.root_part = Some(part),
                          !.parts = message.parts[part_id + 1].sub_parts]
                 [] OTHER ->
                      IF has_root
                        THEN [walk EXCEPT
                                 !.root_part =
                                     Some([@[1] EXCEPT !.parts = Append(@, part)]),
                                 !.parts = parts]
                        ELSE [walk EXCEPT !.state = "returned",
                                          !.root_part = Some(part),
                                          !.parts = parts]
       IN walk' = [next EXCEPT
                      !.visited = Append(@, [part |-> part,
                                             height |-> Len(next.stack)])]
    /\ UNCHANGED <<storeVars, pc, arguments, pos, try_count, data, changelog,
                   changed_mailboxes, response, items, can_spam_train,
                   fetchLocals, initial, mailbox, is_condstore, writes, history,
                   outcome, ncommands>>

\* The parts to visit are exhausted: the root_part is added to the root_part
\* popped from the stack, whose parts are visited next (in its message, when
\* the entry holds one); with an empty stack the loop ends and the root_part
\* is returned.
ReturnsAtOnce ==
    /\ walk.state = "walking"
    /\ walk.parts = <<>>
    /\ walk' = [walk EXCEPT !.state = "returned"]
    /\ UNCHANGED <<storeVars, pc, arguments, pos, try_count, data, changelog,
                   changed_mailboxes, response, items, can_spam_train,
                   fetchLocals, initial, mailbox, is_condstore, writes, history,
                   outcome, ncommands>>
UnwindStack ==
    /\ walk.state = "walking"
    /\ walk.parts = <<>>
    /\ walk' =
          IF walk.stack # <<>>
            THEN LET prev == walk.stack[Len(walk.stack)]
                 IN [walk EXCEPT
                        !.stack = SubSeq(@, 1, Len(@) - 1),
                        !.message = IF prev.message # None
                                      THEN prev.message[1][1] ELSE @,
                        !.message_id = IF prev.message # None
                                         THEN prev.message[1][2] ELSE @,
                        !.root_part =
                            Some([prev.root_part EXCEPT
                                     !.parts = Append(@, walk.root_part[1])]),
                        !.parts = prev.parts]
            ELSE [walk EXCEPT !.state = "returned"]
    /\ UNCHANGED <<storeVars, pc, arguments, pos, try_count, data, changelog,
                   changed_mailboxes, response, items, can_spam_train,
                   fetchLocals, initial, mailbox, is_condstore, writes, history,
                   outcome, ncommands>>

\* body_structure runs to its end once it is called.
NextStructure ==
    \/ StartStructure
    \/ VisitPart
    \/ UnwindStack

SpecStructure ==
    Init /\ [][NextStructure]_vars /\ WF_vars(VisitPart) /\ WF_vars(UnwindStack)

\* The straightforward recursive definition of the structure of a part: a
\* Multipart has the structures of its children in their order, a Message
\* the structure of the root of its nested message (and an envelope), a
\* leaf nothing. A part is told by the offset of its body.
RecursiveStructure(tree) ==
    LET RECURSIVE Of(_, _), OfAll(_, _)
        Of(message, part_id) ==
            LET part == message.parts[part_id + 1]
            IN [body |-> part.body, from |-> part.offset_body,
                envelope |-> is_message(part),
                parts |-> CASE part.body = "Multipart" ->
                                 OfAll(message, part.sub_parts)
                            [] part.body = "Message" -> <<Of(part.nested, 0)>>
                            [] OTHER -> <<>>]
        OfAll(message, ids) ==
            IF ids = <<>> THEN <<>>
            ELSE <<Of(message, Head(ids))>> \o OfAll(message, Tail(ids))
    IN Of(tree, 0)

\* The nesting of a BodyPart, without what was read for its size.
NestingOf(body_part) ==
    LET RECURSIVE Of(_)
        Of(bp) == [body |-> bp.body, from |-> bp.from, envelope |-> bp.envelope,
                   parts |-> [i \in DOMAIN bp.parts |-> Of(bp.parts[i])]]
    IN Of(body_part)

\* C31: for every structure tree the BodyPart the iterative body_structure
\* returns has the nesting of the recursive definition: every Multipart its
\* children in their order, every Message the structure of the root of its
\* nested message, every leaf once and in its place.
C31_StructureMirrorsTree ==
    walk.state = "returned" =>
        /\ walk.root_part # None
        /\ NestingOf(walk.root_part[1]) = RecursiveStructure(walk.tree)

\* body_structure returned the structure of a message that holds a message
\* whose nested message is a multipart of two texts.
C31_Witness ==
    /\ walk.state = "returned"
    /\ LET root == walk.root_part[1]
       IN /\ root.body = "Multipart"
          /\ Len(root.parts) = 1
          /\ root.parts[1].body = "Message"
          /\ root.parts[1].parts[1].body = "Multipart"
          /\ Len(root.parts[1].parts[1].parts) = 2

\* The number of Multipart and Message parts that enclose the part whose
\* body is at the offset from.
NestingDepth(tree, from) ==
    LET RECURSIVE Depths(_, _, _), DepthsAll(_, _, _)
        Depths(message, part_id, depth) ==
            LET part == message.parts[part_id + 1]
            IN {<<part.offset_body, depth>>}
               \cup CASE part.body = "Multipart" ->
                           DepthsAll(message, part.sub_parts, depth + 1)
                      [] part.body = "Message" ->
                           Depths(part.nested, 0, depth + 1)
                      [] OTHER -> {}
        DepthsAll(message, ids, depth) ==
            IF ids = <<>> THEN {}
            ELSE Depths(message, Head(ids), depth)
                 \cup DepthsAll(message, Tail(ids), depth)
    IN CHOOSE depth \in 0..MaxDepth + 1 : <<from, depth>> \in Depths(tree, 0, 0)

\* C32: the walk of body_structure ends on every structure tree; the height
\* of its stack after visiting a part is never more than the number of
\* Multipart and Message parts that enclose the part; and when the walk has
\* ended the stack is empty and there is a root part.
C32_BoundedExplicitStack ==
    /\ [](\A i \in DOMAIN walk.visited :
            /\ walk.visited[i].height
                   <= NestingDepth(walk.tree, walk.visited[i].part.from)
            /\ i = Len(walk.visited) => Len(walk.stack) <= walk.visited[i].height)
    /\ [](walk.state = "returned" => walk.stack = <<>> /\ walk.root_part # None)
    /\ (walk.state = "walking" ~> walk.state = "returned")

\* The walk has ended after a part nested two deep was visited with two
\* entries on the stack.
C32_Witness ==
    /\ walk.state = "returned"
    /\ walk.stack = <<>>
    /\ \E i \in DOMAIN walk.visited :
          /\ walk.visited[i].height = 2
          /\ NestingDepth(walk.tree, walk.visited[i].part.from) = 2

\* C40: for every structure tree and every part of it, the message scope
\* with which body_structure reads the part is the message scope at which
\* body_section and binary arrive when a path leads them to the part.
C40_WalksAgreeOnScope ==
    walk.state = "returned" =>
        \A i \in DOMAIN walk.visited :
            \A path \in UNION {[1..n -> 1..MaxChildren] : n \in 1..MaxDepth},
               then_text \in BOOLEAN, variant \in {"section", "binary"} :
                LET read == walk.visited[i].part
                    sections ==
                        [k \in DOMAIN path |-> SectionPart(path[k])]
                        \o IF then_text /\ variant = "section"
                             THEN <<SectionOf("Text")>> ELSE <<>>
                    t == Traverse(StartOfTraversal(walk.tree), sections, 1,
                                  IF variant = "section" THEN BodySectionFollows
                                  ELSE BinaryFollows, variant, <<>>)
                IN t.found /\ t.nav.part.offset_body = read.from
                       => t.nav.message_id = read.message_id

\* ------------------------------------------------------- Address Resolver

\* The messages of the mailbox after the first n batches of the change log.
Inserted(log, n) == UNION {log[b].inserts : b \in 1..n}
LiveAt(log, n) ==
    (Records \cup Inserted(log, n)) \ UNION {log[b].deletes : b \in 1..n}

\* A Delete entry removes the Client Address of the message and the sequence
\* positions above it are re-packed.
KeepsPosition(m, seqnum) == m
Repacked(m, seqnum) ==
    IF m.seqnum > seqnum THEN [m EXCEPT !.seqnum = @ - 1] ELSE m

ApplyDelete(view, id) ==
    IF \E m \in view.id_to_imap : m.id = id
      THEN LET gone == CHOOSE m \in view.id_to_imap : m.id = id
           IN [view EXCEPT
                  !.id_to_imap = {Repacked(m, gone.seqnum) : m \in @ \ {gone}},
                  !.total_messages = @ - 1]
      ELSE view

\* An Insert entry appends a new highest sequence position and assigns the
\* next unused UID.
ApplyInsert(view, id) ==
    IF \E m \in view.id_to_imap : m.id = id THEN view
    ELSE [view EXCEPT
             !.id_to_imap = @ \cup {[id |-> id, uid |-> view.uid_next,
                                     seqnum |-> view.total_messages + 1]},
             !.total_messages = @ + 1,
             !.uid_next = @ + 1]

\* The entries of a set of ids applied one after the other, lowest id first.
RECURSIVE ApplyAll(_, _, _)
ApplyAll(view, ids, insert) ==
    IF ids = {} THEN view
    ELSE LET id == CHOOSE i \in ids : \A j \in ids : i <= j
         IN ApplyAll(IF insert THEN ApplyInsert(view, id)
                               ELSE ApplyDelete(view, id),
                     ids \ {id}, insert)

\* synchronize_messages: the entries of the change log since the last-known
\* modseq of the mailbox are applied in the order of the log.
RECURSIVE ApplyChanges(_, _, _)
ApplyChanges(view, log, b) ==
    IF b > Len(log) THEN view
    ELSE ApplyChanges(ApplyAll(ApplyAll(view, log[b].inserts, TRUE),
                               log[b].deletes, FALSE),
                      log, b + 1)

synchronize_messages(view, log) ==
    [ApplyChanges(view, log, view.modseq + 1) EXCEPT !.modseq = Len(log)]

\* The address of a message of the mailbox a command names it by.
AddressOf(m, is_uid) == IF is_uid THEN m.uid ELSE m.seqnum

\* sequence_to_ids: the messages of the mailbox with an address of the set.
sequence_to_ids(view, sequence_set, is_uid) ==
    {m \in view.id_to_imap : AddressOf(m, is_uid) \in sequence_set}

\* The mailbox has a message at the address.
HasAddressBelow(view, address, is_uid) ==
    IF is_uid THEN \E m \in view.id_to_imap : m.uid = address
    ELSE address < view.total_messages
HasAddress(view, address, is_uid) ==
    IF is_uid THEN \E m \in view.id_to_imap : m.uid = address
    ELSE address <= view.total_messages

\* sequence_expand_missing: the addresses of the set with no message.
sequence_expand_missing(view, sequence_set, is_uid) ==
    {address \in sequence_set : ~HasAddress(view, address, is_uid)}

\* Another client appends a message to the mailbox: the store gives it the
\* next id and logs the Insert under a new change id.
InsertRecord ==
    /\ Len(change_log) < MaxChanges
    /\ change_counter' = assign_change_id(change_counter)
    /\ change_log' = Append(change_log,
           [change_id |-> assign_change_id(change_counter), updates |-> {},
            child_updates |-> {}, deletes |-> {},
            inserts |-> {Cardinality(Records)
                         + Cardinality(Inserted(change_log, Len(change_log)))
                         + 1}])
    /\ UNCHANGED <<email, state_changes, deleted, tasks, pc, arguments, pos,
                   try_count, data, changelog, changed_mailboxes, response,
                   items, can_spam_train, fetchLocals, initial, mailbox, is_condstore, walk, writes,
                   history, outcome, ncommands>>

\* A command starts: the mailbox is synchronized with the change log. The
\* command names any set of sequence numbers or of UIDs up to one past the
\* addresses the mailbox can come to hold.
Synchronize(s) ==
    /\ pc[s] = "idle"
    /\ \E sequence_set \in SUBSET (1..(Cardinality(Records) + MaxChanges + 1)),
          is_uid \in BOOLEAN :
          arguments' = [arguments EXCEPT ![s] =
              [sequence_set |-> sequence_set, is_uid |-> is_uid,
               ids |-> {}, missing |-> {}]]
    /\ mailbox' = [mailbox EXCEPT ![s] = synchronize_messages(@, change_log)]
    /\ pc' = [pc EXCEPT ![s] = "synchronized"]
    /\ UNCHANGED <<storeVars, pos, try_count, data, changelog,
                   changed_mailboxes, response, items, can_spam_train,
                   fetchLocals, initial, is_condstore, walk, writes, history,
                   outcome, ncommands>>

\* The addresses of the command are resolved to the messages of the mailbox.
Resolve(s) ==
    /\ pc[s] = "synchronized"
    /\ arguments' = [arguments EXCEPT ![s].ids =
           sequence_to_ids(mailbox[s], arguments[s].sequence_set,
                           arguments[s].is_uid)]
    /\ pc' = [pc EXCEPT ![s] = "resolved"]
    /\ UNCHANGED <<storeVars, pos, try_count, data, changelog,
                   changed_mailboxes, response, items, can_spam_train,
                   fetchLocals, initial, mailbox, is_condstore, walk, writes, history, outcome,
                   ncommands>>

\* The addresses of the command with no message are collected.
ExpandMissing(s) ==
    /\ pc[s] = "resolved"
    /\ arguments' = [arguments EXCEPT ![s].missing =
           sequence_expand_missing(mailbox[s], arguments[s].sequence_set,
                                   arguments[s].is_uid)]
    /\ pc' = [pc EXCEPT ![s] = "expanded"]
    /\ UNCHANGED <<storeVars, pos, try_count, data, changelog,
                   changed_mailboxes, response, items, can_spam_train,
                   fetchLocals, initial, mailbox, is_condstore, walk, writes, history, outcome,
                   ncommands>>

\* The command returns.
Resolved(s) ==
    /\ pc[s] = "expanded"
    /\ pc' = [pc EXCEPT ![s] = "idle"]
    /\ DropLocals(s)
    /\ UNCHANGED <<storeVars, fetchLocals, initial, mailbox, is_condstore, walk, writes, ncommands>>

\* Session 1 resolves the addresses of its commands while other clients
\* append messages and delete messages of the mailbox.
NextResolve ==
    \/ InsertRecord
    \/ /\ Len(change_log) < MaxChanges
       /\ \E id \in LiveAt(change_log, Len(change_log)) : DeleteRecord(id)
    \/ Synchronize(1)
    \/ Resolve(1)
    \/ ExpandMissing(1)
    \/ Resolved(1)

SpecResolve == Init /\ [][NextResolve]_vars

\* -------------------------------------------------------------- properties

Running == {"read", "assign", "write", "commit", "broadcast"}
AfterLoop == {"commit", "broadcast", "done"}

\* The entries of a command's outcome with the given result.
Entries(s, kind) == {i \in DOMAIN outcome[s] : outcome[s][i].result = kind}

\* The records a command has written.
WrittenIds(s) == {outcome[s][i].id : i \in Entries(s, "written")}

\* The step is session s's write of record id, accepted by the store.
Accepted(s, id) ==
    /\ pc[s] = "write"
    /\ pc'[s] # "write"
    /\ CurrentId(s) = id
    /\ writes'[id] = writes[id] + 1

\* C1: a write of a record is accepted only if the record still holds the
\* keywords the attempt read and nothing was written to it since that read;
\* the keywords it stores are the operation applied to the keywords the
\* record held just before the write, so no committed change is overwritten.
C1_NoLostUpdate ==
    [][\A s \in Sessions, id \in Records :
          Accepted(s, id) =>
              /\ email[id].keywords = data[s].keywords
              /\ writes[id] = history[s].read_at
              /\ email'[id].keywords =
                     ApplyOperation(arguments[s].operation,
                                    arguments[s].keywords, email[id].keywords)]_vars

\* A session lost a race on a record, read it again and then wrote it.
C1_Witness ==
    \E s \in Sessions : \E i \in Entries(s, "written") :
        /\ outcome[s][i].attempts = 2
        /\ outcome[s][i].first_read_at < writes[outcome[s][i].id] - 1

\* C2: two concurrent STORE +FLAGS with disjoint keywords on one record and no
\* other writer: when both have completed, the record holds its original
\* keywords united with the keywords of both commands.
C2_UnionOfAdditions ==
    (\A s \in Sessions : pc[s] = "done" /\ arguments[s].ids = <<1>>) =>
        email[1].keywords =
            initial[1].keywords \cup arguments[1].keywords \cup arguments[2].keywords

\* Both commands added something, and one of them had to retry.
C2_Witness ==
    /\ \A s \in Sessions :
          /\ pc[s] = "done"
          /\ Entries(s, "written") = {1}
    /\ \E s \in Sessions : outcome[s][1].attempts = 2
    /\ email[1].keywords = Keywords
    /\ initial[1].keywords = {}

\* Both commands have completed, both read the record before any write of it,
\* and both had a keyword to add.
BothRaced ==
    \A s \in Sessions :
        /\ pc[s] = "done"
        /\ Len(outcome[s]) = 1
        /\ outcome[s][1].first_read_at = 0
        /\ arguments[s].keywords \ initial[1].keywords # {}

\* C3: in the conflict scenario where both sessions read the record before
\* either writes, one session's write is accepted on its first attempt and the
\* other's after exactly one retry: one rejected write, one more read, one
\* accepted write.
C3_ExactlyOneRetry ==
    BothRaced =>
        \E s, t \in Sessions :
            /\ s # t
            /\ outcome[s][1].result = "written"
            /\ outcome[s][1].attempts = 1
            /\ outcome[s][1].reads = 1
            /\ outcome[t][1].result = "written"
            /\ outcome[t][1].attempts = 2
            /\ outcome[t][1].reads = 2

C3_Witness == BothRaced /\ writes[1] = 2

\* C4: a record whose write is rejected MAX_RETRIES + 1 times is the only
\* thing that fails: the response becomes NO "Some messages could not be
\* updated." exactly then, the loop goes on, every id of the command is
\* processed, and the records written are logged and committed as usual.
C4_FailureIsRecordScoped ==
    \A s \in Sessions :
        /\ (Entries(s, "failed") # {}) <=> (response[s].rtype = "No")
        /\ response[s].rtype = "No" =>
               response[s].message = "Some messages could not be updated."
        /\ \A i \in Entries(s, "failed") :
               /\ outcome[s][i].attempts = MAX_RETRIES + 1
               /\ outcome[s][i].id \notin changelog[s].updates
        /\ pc[s] \in AfterLoop =>
               /\ [i \in DOMAIN outcome[s] |-> outcome[s][i].id] = arguments[s].ids
               /\ changelog[s].updates = WrittenIds(s)
        /\ (pc[s] \in {"broadcast", "done"} /\ WrittenIds(s) # {}) =>
               \E b \in DOMAIN change_log :
                   /\ change_log[b].change_id = changelog[s].change_id
                   /\ change_log[b].updates = WrittenIds(s)

\* A command failed on its first record and wrote and committed its second.
C4_Witness ==
    \E s \in Sessions :
        /\ pc[s] = "done"
        /\ Len(outcome[s]) = 2
        /\ outcome[s][1].result = "failed"
        /\ outcome[s][2].result = "written"
        /\ response[s].rtype = "No"

\* An upper bound of the store operations (read, assign, write, commit,
\* broadcast) the running command of session s can still perform.
Rank(s) ==
    LET per_record == 3 * (MAX_RETRIES + 1)
        rest == (Len(arguments[s].ids) - pos[s]) * per_record + 2
        left == 3 * (MAX_RETRIES + 1 - try_count[s])
    IN CASE pc[s] = "read" -> left + rest
         [] pc[s] = "assign" -> left - 1 + rest
         [] pc[s] = "write" -> left - 2 + rest
         [] pc[s] = "commit" -> 2
         [] pc[s] = "broadcast" -> 1
         [] OTHER -> 0

\* C5: whatever the other sessions do, a record is written at most
\* MAX_RETRIES + 1 times, and every step of a running command lowers the
\* bound Rank on its remaining store operations, which starts at no more than
\* 3 * (MAX_RETRIES + 1) per id plus 2: the command reaches its response.
C5_BoundedRetries ==
    /\ [](\A s \in Sessions :
             /\ try_count[s] <= MAX_RETRIES
             /\ history[s].attempts <= MAX_RETRIES + 1
             /\ \A i \in DOMAIN outcome[s] :
                    outcome[s][i].attempts <= MAX_RETRIES + 1
             /\ Rank(s) <= 3 * (MAX_RETRIES + 1) * Len(arguments[s].ids) + 2
             /\ Rank(s) >= 0)
    /\ [][\A s \in Sessions :
             (pc[s] \in Running /\ <<pc[s], pos[s], try_count[s]>>'
                                      # <<pc[s], pos[s], try_count[s]>>)
                 => Rank(s)' < Rank(s)]_vars

\* A record was given up after MAX_RETRIES + 1 rejected writes.
C5_Witness ==
    \E s \in Sessions : \E i \in Entries(s, "failed") :
        outcome[s][i].attempts = MAX_RETRIES + 1

\* The operation left the keywords of the entry's record as they were.
NoChange(e) == e.keywords = e.old_keywords

\* C6: when the operation computes the keywords the record already has,
\* nothing is written or logged for the record and no item is sent; a command
\* that finds every record so at its first read (as a repeated FLAGS does)
\* assigns no change id, commits nothing and broadcasts nothing.
C6_NoChangeNoWrite ==
    \A s \in Sessions :
        /\ \A i \in DOMAIN outcome[s] :
               NoChange(outcome[s][i]) =>
                   /\ outcome[s][i].result = "unchanged"
                   /\ outcome[s][i].id \notin changelog[s].updates
                   /\ \A j \in DOMAIN items[s] :
                          items[s][j].id # outcome[s][i].id
        /\ (\A i \in DOMAIN outcome[s] :
                NoChange(outcome[s][i]) /\ outcome[s][i].reads = 1) =>
               \/ pc[s] \in {"read", "assign", "write"}
               \/ /\ pc[s] \notin {"commit", "broadcast"}
                  /\ is_empty(changelog[s])
                  /\ changelog[s].change_id = U64_MAX
                  /\ history[s].assigned = 0
                  /\ history[s].commits = <<>>
                  /\ history[s].broadcasts = <<>>
                  /\ items[s] = <<>>

\* The same FLAGS command twice in a row: the first wrote, committed and
\* broadcast; the second found nothing to change.
C6_Witness ==
    \E s, t \in Sessions :
        /\ s # t
        /\ pc[s] = "done" /\ pc[t] = "done"
        /\ arguments[s].operation = "Set" /\ arguments[t].operation = "Set"
        /\ arguments[s].keywords = arguments[t].keywords
        /\ arguments[s].ids = arguments[t].ids
        /\ Len(outcome[t]) = 2 /\ Entries(t, "written") = {1, 2}
        /\ Len(outcome[s]) = 2 /\ Entries(s, "unchanged") = {1, 2}
        /\ \A i \in {1, 2} : outcome[s][i].reads = 1
        /\ Len(change_log) = 1 /\ Len(state_changes) = 1

\* C7: every record write is in the committed change log: a record that holds
\* a change id written by a command has that command's Update entry in a
\* committed batch.
C7_WriteImpliesLogEntry ==
    \A id \in Records :
        writes[id] > 0 =>
            \E b \in DOMAIN change_log :
                /\ change_log[b].change_id = email[id].change_id
                /\ id \in change_log[b].updates

\* C8: the change ids of the committed batches increase strictly in commit
\* order.
C8_ModseqIncreasesInCommitOrder ==
    \A a, b \in DOMAIN change_log :
        a < b => change_log[a].change_id < change_log[b].change_id

\* C9: a command that ends with an empty change log has committed nothing,
\* broadcast nothing and taken no value of the change counter.
C9_EmptyBatchTakesNoChangeId ==
    \A s \in Sessions :
        (pc[s] = "done" /\ is_empty(changelog[s])) =>
            /\ history[s].commits = <<>>
            /\ history[s].broadcasts = <<>>
            /\ history[s].assigned = 0

\* The ModSeq data items of a response.
ModSeqs(s) ==
    UNION {{items[s][j].items[k][2] :
               k \in {n \in DOMAIN items[s][j].items :
                          items[s][j].items[n][1] = "ModSeq"}} :
           j \in DOMAIN items[s]}

\* C10: a command assigns at most one change id; every record it writes
\* stores that id, every MODSEQ item of its response is that id + 1, and the
\* one batch it commits carries that id and the updates of the records written.
C10_OneModseqPerCommand ==
    \A s \in Sessions :
        /\ history[s].assigned <= 1
        /\ \A i \in Entries(s, "written") :
               /\ outcome[s][i].change_id = changelog[s].change_id
               /\ changelog[s].change_id # U64_MAX
        /\ \A m \in ModSeqs(s) : m = changelog[s].change_id + 1
        /\ arguments[s].is_condstore =>
               Cardinality(WrittenIds(s)) = Len(items[s])
        /\ Len(history[s].commits) <= 1
        /\ \A c \in DOMAIN history[s].commits :
               /\ history[s].commits[c] = changelog[s].change_id
               /\ \E b \in DOMAIN change_log :
                      /\ change_log[b].change_id = changelog[s].change_id
                      /\ change_log[b].updates = WrittenIds(s)

\* A CONDSTORE command wrote two records after a retry and committed.
C10_Witness ==
    \E s \in Sessions :
        /\ pc[s] = "done"
        /\ arguments[s].is_condstore
        /\ Entries(s, "written") = {1, 2}
        /\ outcome[s][1].attempts = 2
        /\ Cardinality(ModSeqs(s)) = 1
        /\ Len(history[s].commits) = 1

\* The batches committed when session s's command started whose modseq
\* (change id + 1) is after the modseq of its UNCHANGEDSINCE.
BatchesSince(s) ==
    {b \in 1..history[s].log_at_start :
        change_log[b].change_id + 1 > arguments[s].unchanged_since[1]}

\* The resolved ids of the command with a change, and with a Delete, in them.
ResolvedIds(s) == {history[s].resolved[i] : i \in DOMAIN history[s].resolved}
ChangedIds(s) ==
    {id \in ResolvedIds(s) :
        \E b \in BatchesSince(s) :
            id \in change_log[b].updates \cup change_log[b].deletes}
DeletedIds(s) ==
    {id \in ResolvedIds(s) : \E b \in BatchesSince(s) : id \in change_log[b].deletes}

\* A STORE with UNCHANGEDSINCE is past its precondition step.
Filtered(s) == pc[s] # "idle" /\ arguments[s].unchanged_since # None

C12_DeletedIsFlagged ==
    \A s \in Sessions :
        (Filtered(s) /\ Entries(s, "failed") = {}) =>
            (DeletedIds(s) # {} <=>
                /\ response[s].rtype = "No"
                /\ response[s].message = "Some of the messages no longer exist.")

\* C33: a STORE with UNCHANGEDSINCE X never writes a record whose latest
\* change, at the moment of the write, has a modseq (change id + 1) greater
\* than X, whatever the other sessions do between its changes-since query
\* and the write.
C33_UnchangedSinceAtWriteTime ==
    [][\A s \in Sessions, id \in Records :
          (Accepted(s, id) /\ arguments[s].unchanged_since # None) =>
              email[id].change_id + 1 <= arguments[s].unchanged_since[1]]_vars

\* The mailboxes of the records on which the command changed the presence of
\* the Seen keyword.
SeenChangedMailboxes(s) ==
    UNION {MailboxesOf(outcome[s][i].id) :
              i \in {j \in Entries(s, "written") :
                        ("Seen" \in outcome[s][j].keywords)
                            # ("Seen" \in outcome[s][j].old_keywords)}}

\* C13: the batch a STORE command has committed holds a ChildUpdate for a
\* mailbox exactly when the command changed the presence of Seen on a record
\* of that mailbox, next to the Update entries of the records written.
C13_ChildUpdateIffSeenChanged ==
    \A s \in Sessions :
        (pc[s] \in {"broadcast", "done"} /\ history[s].commits # <<>>) =>
            \A b \in DOMAIN change_log :
                change_log[b].change_id = history[s].commits[1] =>
                    /\ change_log[b].updates = WrittenIds(s)
                    /\ change_log[b].child_updates = SeenChangedMailboxes(s)

\* The records of the command whose update ended without a write: the
\* retries were exhausted, or the read after a conflict found nothing left
\* to change.
LostIds(s) ==
    {outcome[s][i].id :
        i \in Entries(s, "failed")
                \cup {j \in Entries(s, "unchanged") : outcome[s][j].attempts >= 1}}

\* C35: a record whose update in a STORE ended without a successful write
\* has no Update entry and no item in the response, causes no ChildUpdate
\* (the ChildUpdates are those of the records written) and takes no value
\* of the change counter (none is taken when no record was written).
C35_FailedRecordLeavesNoTrace ==
    \A s \in Sessions :
        (pc[s] \in AfterLoop /\ LostIds(s) # {}) =>
            /\ changelog[s].updates \cap LostIds(s) = {}
            /\ \A j \in DOMAIN items[s] : items[s][j].id \notin LostIds(s)
            /\ changelog[s].child_updates = SeenChangedMailboxes(s)
            /\ WrittenIds(s) = {} => history[s].assigned = 0

\* The STORE of session s was denied.
Denied(s) ==
    /\ pc[s] = "error"
    /\ response[s].code = Some([kind |-> "NoPerm"])

\* C38: a STORE whose sequence set resolves to ids and whose ACL check for
\* ModifyItems answers no fails with NoPerm: the step that denies it changes
\* nothing in the store (no record written, no change id taken, nothing
\* committed or broadcast), and the command has read no record and has
\* nothing in its change log or its response items.
C38_StoreDeniedWithoutEffect ==
    /\ [](\A s \in Sessions :
             Denied(s) =>
                 /\ arguments[s].ids # <<>>
                 /\ response[s].rtype = "No"
                 /\ history[s] = NoHistory
                 /\ outcome[s] = <<>> /\ items[s] = <<>>
                 /\ changelog[s] = NewChangeLog)
    /\ [][\A s \in Sessions :
             (Denied(s)' /\ ncommands' # ncommands) =>
                 UNCHANGED <<email, change_counter, change_log, state_changes,
                             writes, tasks>>]_vars

\* A STORE of session 1 was denied while session 2 had written message 1
\* and not yet committed.
C38_Witness ==
    /\ Denied(1)
    /\ pc[2] = "commit"
    /\ writes[1] = 1
    /\ change_log = <<>>

\* The notifications that carry the change id.
Notifications(change_id) ==
    {n \in DOMAIN state_changes : state_changes[n].change_id = change_id}

\* C14: a STORE command commits at most once and broadcasts at most once,
\* only after its commit; the notification carries the change id of the
\* committed batch, names Email, and names Mailbox exactly when
\* changed_mailboxes is not empty.
C14_OneCommitOneNotification ==
    /\ \A s \in Sessions :
          /\ Len(history[s].commits) <= 1
          /\ Len(history[s].broadcasts) <= 1
          /\ pc[s] = "broadcast" => Len(history[s].commits) = 1
          /\ history[s].broadcasts # <<>> =>
                 /\ history[s].commits = history[s].broadcasts
                 /\ \E b \in DOMAIN change_log :
                        change_log[b].change_id = history[s].broadcasts[1]
                 /\ \A n \in Notifications(history[s].broadcasts[1]) :
                        /\ "Email" \in state_changes[n].types
                        /\ "Mailbox" \in state_changes[n].types
                               <=> changed_mailboxes[s] # {}
          /\ (pc[s] = "done" /\ history[s].commits # <<>>) =>
                 history[s].broadcasts # <<>>
    /\ \A n \in DOMAIN state_changes :
          /\ \E b \in DOMAIN change_log :
                 change_log[b].change_id = state_changes[n].change_id
          /\ Cardinality(Notifications(state_changes[n].change_id)) = 1

\* Two commands have committed and broadcast, one naming Email only and one
\* naming Mailbox too.
C14_Witness ==
    /\ \A s \in Sessions : pc[s] = "done" /\ Len(history[s].broadcasts) = 1
    /\ Len(state_changes) = 2
    /\ state_changes[1].types # state_changes[2].types

\* The writes of message id in the outcomes of the commands, as pairs of
\* session and entry, and those among them that call for training: the
\* account can train and the write adds Junk, adds NotJunk or removes Junk.
WritesOf(id) ==
    {<<s, i>> \in Sessions \X {1, 2} :
        /\ i \in Entries(s, "written")
        /\ outcome[s][i].id = id}
AddsKeyword(e, k) == k \in e.keywords /\ k \notin e.old_keywords
RemovesKeyword(e, k) == k \notin e.keywords /\ k \in e.old_keywords
CallsForTraining(s, e) ==
    /\ can_spam_train[s]
    /\ \/ AddsKeyword(e, "Junk")
       \/ AddsKeyword(e, "NotJunk")
       \/ RemovesKeyword(e, "Junk")

\* C16: the task queue holds one training task for every accepted write that
\* adds Junk, adds NotJunk or removes Junk under an account that can train,
\* and no other task: a rejected write attempt leaves none. The task of a
\* write that adds Junk alone learns spam; the task of one that adds NotJunk
\* alone or only removes Junk learns ham.
C16_TaskWithTheWrite ==
    /\ \A id \in Records :
          Cardinality({n \in DOMAIN tasks : tasks[n].id = id}) =
              Cardinality({w \in WritesOf(id) :
                              CallsForTraining(w[1], outcome[w[1]][w[2]])})
    /\ \A n \in DOMAIN tasks :
          \E w \in WritesOf(tasks[n].id) :
              LET e == outcome[w[1]][w[2]]
              IN /\ CallsForTraining(w[1], e)
                 /\ (AddsKeyword(e, "Junk") /\ ~AddsKeyword(e, "NotJunk"))
                        => tasks[n].learn_spam
                 /\ ~AddsKeyword(e, "Junk") => ~tasks[n].learn_spam

\* A write that removed Junk after a rejected attempt left one task, to learn
\* ham, and the write of the other session left one to learn spam.
C16_Witness ==
    /\ \A s \in Sessions : pc[s] = "done" /\ can_spam_train[s]
    /\ Len(tasks) = 2
    /\ tasks[1].learn_spam /\ ~tasks[2].learn_spam
    /\ \E s \in Sessions :
          /\ Entries(s, "written") = {1}
          /\ outcome[s][1].attempts = 2
          /\ RemovesKeyword(outcome[s][1], "Junk")
          /\ ~AddsKeyword(outcome[s][1], "NotJunk")

\* The command of session s is a FETCH, and a FETCH in or after its loop.
IsFetch(s) == "attributes" \in DOMAIN arguments[s]
FetchLoop == {"f_read", "f_blob", "f_item"}
AfterFetchLoop == {"f_begin", "f_seen", "commit", "broadcast", "done"}

\* The ids of the records the command has gone through, in that order.
Processed(s) == [i \in DOMAIN outcome[s] |-> outcome[s][i].id]

\* The items of messages are in ascending order of sequence number.
Ascending(seq) ==
    \A i, j \in DOMAIN seq : i < j => Seqnum(seq[i].id) < Seqnum(seq[j].id)

\* C15: a command goes through its records, and reports them, in ascending
\* order of sequence number, FETCH and STORE alike.
C15_AscendingSequenceOrder ==
    \A s \in Sessions :
        /\ Ascending(outcome[s])
        /\ Ascending(items[s])
        /\ Ascending(sent[s])
        /\ Ascending(set_seen_ids[s])

\* The message of an entry has left nothing in the command: no item, no
\* update, no Seen to set.
NothingFor(s, id) ==
    /\ \A j \in DOMAIN items[s] : items[s][j].id # id
    /\ \A j \in DOMAIN sent[s] : sent[s][j].id # id
    /\ \A j \in DOMAIN set_seen_ids[s] : set_seen_ids[s][j].id # id
    /\ id \notin changelog[s].updates

\* C17: a record whose data is not found when FETCH or STORE reads it is
\* passed over: nothing is emitted, written or logged for it, the response
\* stays OK completed (unless a write is given up), and every id of the
\* command is gone through.
C17_NotFoundIsPassedOver ==
    \A s \in Sessions :
        /\ \A i \in Entries(s, "missing") : NothingFor(s, outcome[s][i].id)
        /\ (pc[s] \notin {"bad", "error"}
               /\ Entries(s, "failed") = {}) => response[s] = Completed
        /\ pc[s] \in AfterLoop \cup AfterFetchLoop =>
               Processed(s) = arguments[s].ids

\* A FETCH and a STORE have each passed over the deleted message and dealt
\* with the other one.
C17_Witness ==
    \E s, t \in Sessions :
        /\ pc[s] = "done" /\ IsFetch(s)
        /\ Entries(s, "missing") = {1} /\ Entries(s, "sent") = {2}
        /\ Len(sent[s]) = 1
        /\ pc[t] = "done" /\ ~IsFetch(t)
        /\ Entries(t, "written") = {1} /\ Entries(t, "missing") = {2}

\* C18: a command that ends with the error of a store operation has sent no
\* response data of its records to the client.
C18_ErrorSendsNothing ==
    \A s \in Sessions : pc[s] = "error" => sent[s] = <<>> /\ items[s] = <<>>

\* The VANISHED parameter of the FETCH is not allowed.
BadVanished(a) == a.include_vanished /\ ~(a.is_qresync /\ a.is_uid)

C20_MissingBlobSkipsRecord ==
    \A s \in Sessions :
        /\ \A i \in Entries(s, "no_blob") : NothingFor(s, outcome[s][i].id)
        /\ (IsFetch(s) /\ pc[s] \in FetchLoop \cup AfterFetchLoop) =>
               response[s] = Completed
        /\ (IsFetch(s) /\ pc[s] \in AfterFetchLoop) =>
               Processed(s) = arguments[s].ids

\* A FETCH that sets Seen sent its first message and found no blob for the
\* second, unseen one: it completed, and the message is still unseen.
C20_Witness ==
    \E s \in Sessions :
        /\ pc[s] = "done" /\ IsFetch(s)
        /\ SetSeenFlags(arguments[s])
        /\ Len(outcome[s]) = 2
        /\ outcome[s][1].result = "sent"
        /\ outcome[s][2].result = "no_blob"
        /\ Len(sent[s]) = 1
        /\ "Seen" \notin email[outcome[s][2].id].keywords
        /\ change_log = <<>>

\* C34: when a FETCH completes, every record for which it reported Seen as a
\* side effect of a fetch that is not a peek has the Seen keyword stored:
\* the command's write of it was accepted, or the record holds it, whatever
\* another session did to the keywords of the record during the command.
C34_ReportedSeenIsPersisted ==
    [][\A s \in Sessions :
          (IsFetch(s) /\ pc[s] # "done" /\ pc'[s] = "done") =>
              \A k \in DOMAIN set_seen_ids'[s] :
                  LET id == set_seen_ids'[s][k].id
                  IN id \notin deleted' =>
                         \/ id \in changelog'[s].updates
                         \/ "Seen" \in email'[id].keywords]_vars

\* C36: the batch a FETCH has committed after adding Seen to records holds,
\* next to the Update of each record, a ChildUpdate for every mailbox that
\* contains the record, and its notification names the Mailbox collection,
\* as for a STORE that changes Seen.
C36_FetchSeenLoggedLikeStore ==
    \A s \in Sessions :
        (IsFetch(s) /\ pc[s] \in {"broadcast", "done"}
                    /\ history[s].commits # <<>>) =>
            /\ \A b \in DOMAIN change_log :
                   change_log[b].change_id = history[s].commits[1] =>
                       \A id \in change_log[b].updates :
                           MailboxesOf(id) \subseteq change_log[b].child_updates
            /\ \A n \in Notifications(history[s].commits[1]) :
                   "Mailbox" \in state_changes[n].types

\* C39: a step of a FETCH changes the store, the change log, the change
\* counter or the notifications only if the mailbox is selected (not
\* examined), an attribute is a BODY[...] or BINARY[...] that is no peek or
\* RFC822 or RFC822.TEXT, the ACL check allowed ModifyItems, and a record did
\* not hold Seen when the command read it; a record it writes is such a
\* record and gains Seen and nothing else.
C39_FetchMutatesOnlyWhenAllowed ==
    [][\A s \in Sessions :
          (/\ IsFetch(s)
           /\ pc'[s] # pc[s] \/ pos'[s] # pos[s]
           /\ <<email, change_log, change_counter, state_changes>>'
                  # <<email, change_log, change_counter, state_changes>>) =>
              LET a == arguments[s]
              IN /\ a.is_select
                 /\ a.acl_modify
                 /\ \E i \in DOMAIN a.attributes :
                        a.attributes[i] \in {"BodySection", "Binary", "Rfc822",
                                             "Rfc822Text"}
                 /\ \E k \in DOMAIN set_seen_ids[s] :
                        "Seen" \notin set_seen_ids[s][k].keywords
                 /\ \A id \in Records :
                        email'[id] # email[id] =>
                            /\ "Seen" \notin email[id].keywords
                            /\ email'[id].keywords
                                   = email[id].keywords \cup {"Seen"}]_vars

\* A FETCH of RFC822 on a selected mailbox whose messages the user may not
\* modify has completed with both messages sent: message 1 is still unseen
\* and no change id was taken.
C39_Witness ==
    /\ pc[1] = "done" /\ IsFetch(1)
    /\ arguments[1].attributes = <<"Rfc822">>
    /\ arguments[1].is_select /\ ~arguments[1].acl_modify
    /\ Len(sent[1]) = 2
    /\ email[1].keywords = {}
    /\ change_counter = 0

\* C37: a FETCH writes the untagged OK with HIGHESTMODSEQ only if it is the
\* command that switched the session from CONDSTORE disabled to enabled, by
\* CHANGEDSINCE or by the MODSEQ attribute; a FETCH of a session that has
\* CONDSTORE enabled already never writes it, whatever it asks for.
C37_HighestModseqOncePerSession ==
    \A s \in Sessions :
        (pc[s] = "done" /\ "was_condstore" \in DOMAIN arguments[s]) =>
            ((\E k \in DOMAIN sent[s] : sent[s][k].message = "Highest Modseq")
                => /\ ~arguments[s].was_condstore
                   /\ is_condstore[s]
                   /\ \/ arguments[s].changed_since # None
                      \/ Contains(arguments[s].attributes, "ModSeq"))

\* The entries of the response of session s that are items of messages, and
\* those that are errors.
IsError(entry) == "error" \in DOMAIN entry
ItemsOf(s, id) ==
    {j \in DOMAIN sent[s] : sent[s][j].id = id /\ ~IsError(sent[s][j])}
ErrorsOf(s, id) ==
    {j \in DOMAIN sent[s] : sent[s][j].id = id /\ IsError(sent[s][j])}

\* The names of the data items of an entry, in their order.
Names(entry) == [i \in DOMAIN entry.items |-> entry.items[i][1]]
BinaryAttributes == {"Binary", "BinaryPeek"}

\* The BINARY[...] of the command addresses a part of the message that is
\* marked with an encoding problem: part 3 of message 1.
AddressesEncodingProblem(a, id) ==
    /\ \E i \in DOMAIN a.attributes : a.attributes[i] \in BinaryAttributes
    /\ id = 1 /\ a.sections = <<SectionPart(3)>>

\* C21: when a BINARY[...] of a FETCH addresses a part with an encoding
\* problem, one UNKNOWN-CTE error is sent for each such attribute of the
\* message, the item of the message still has the data of every other
\* attribute in their order, and the command goes on to the other messages
\* with its response OK; no such error is sent in any other case.
C21_DecodeFailureIsAttributeScoped ==
    \A s \in Sessions :
        IsFetch(s) /\ pc[s] \in FetchLoop \cup AfterFetchLoop =>
            LET a == arguments[s]
            IN /\ response[s] = Completed
               /\ pc[s] \in AfterFetchLoop => Processed(s) = a.ids
               /\ \A i \in Entries(s, "sent") :
                     LET id == outcome[s][i].id
                         others == SelectSeq(a.attributes,
                                     LAMBDA x : x \notin BinaryAttributes)
                     IN IF AddressesEncodingProblem(a, id)
                          THEN /\ Cardinality(ErrorsOf(s, id)) =
                                    Len(a.attributes) - Len(others)
                               /\ \A j \in ErrorsOf(s, id) :
                                     sent[s][j].error = "UnknownCte"
                               /\ \E j \in ItemsOf(s, id) :
                                     /\ ItemsOf(s, id) = {j}
                                     /\ \A k \in ErrorsOf(s, id) : k < j
                                     /\ SelectSeq(Names(sent[s][j]),
                                           LAMBDA x : x # "Flags"
                                                      \/ Contains(others, x))
                                          = others
                          ELSE ErrorsOf(s, id) = {}

\* A FETCH of BINARY[3], BINARY.SIZE[3] and ENVELOPE is done: message 1 has
\* one error and an item with the size and the envelope, message 2 an item.
C21_Witness ==
    \E s \in Sessions :
        /\ pc[s] = "done" /\ IsFetch(s)
        /\ arguments[s].attributes = <<"Binary", "BinarySize", "Envelope">>
        /\ Cardinality(ErrorsOf(s, 1)) = 1
        /\ \E j \in ItemsOf(s, 1) :
              Names(sent[s][j]) = <<"BinarySize", "Envelope", "Flags">>
        /\ ItemsOf(s, 2) # {}
        /\ response[s] = Completed

\* The FETCH sets Seen on the message: it is in set_seen_ids.
SetsSeen(s, id) ==
    \E j \in DOMAIN set_seen_ids[s] : set_seen_ids[s][j].id = id

\* The positions of the items of an entry that are FLAGS.
FlagsAt(entry) == {i \in DOMAIN entry.items : entry.items[i][1] = "Flags"}

\* The position of an attribute among the attributes of the command.
IndexOf(seq, x) == CHOOSE i \in DOMAIN seq : seq[i] = x

\* C22: the data items of a message are in the order of the attributes of
\* the command; when the FETCH sets Seen on the message, one FLAGS item with
\* Seen is appended at the end if FLAGS is not among the attributes, and the
\* FLAGS item that was asked for has Seen and nothing is appended if it is;
\* without that, the item has no FLAGS that was not asked for.
C22_AttributeOrderAndDerivedFlags ==
    \A s \in Sessions :
        IsFetch(s) /\ pc[s] \in FetchLoop \cup AfterFetchLoop =>
            \A j \in DOMAIN sent[s] :
                ~IsError(sent[s][j]) =>
                    LET entry == sent[s][j]
                        asked == arguments[s].attributes
                        n == Len(entry.items)
                        appended == SetsSeen(s, entry.id)
                                    /\ ~Contains(asked, "Flags")
                        m == IF appended THEN n - 1 ELSE n
                    IN /\ \A i \in 1..m : Contains(asked, entry.items[i][1])
                       /\ \A i, k \in 1..m :
                             i < k => IndexOf(asked, entry.items[i][1])
                                        < IndexOf(asked, entry.items[k][1])
                       /\ appended => /\ n >= 1
                                      /\ FlagsAt(entry) = {n}
                                      /\ "Seen" \in entry.items[n][2]
                       /\ (SetsSeen(s, entry.id) /\ Contains(asked, "Flags")) =>
                             /\ Cardinality(FlagsAt(entry)) = 1
                             /\ \A i \in FlagsAt(entry) :
                                   "Seen" \in entry.items[i][2]
                       /\ (~SetsSeen(s, entry.id) /\ ~Contains(asked, "Flags")) =>
                             FlagsAt(entry) = {}

\* Seen was set on message 1 by a FETCH that asked for FLAGS in the middle,
\* and by one that did not ask for it.
C22_Witness ==
    \E s \in Sessions :
        /\ pc[s] = "done" /\ IsFetch(s)
        /\ SetsSeen(s, 1)
        /\ \E j \in ItemsOf(s, 1) :
              \/ Names(sent[s][j]) = <<"BodySection", "Flags", "Uid">>
              \/ Names(sent[s][j]) = <<"Envelope", "Rfc822Text", "Flags">>
        /\ "Seen" \in email[1].keywords

\* The number of times the FETCH has asked the blob store for the message.
Retrievals(s, id) ==
    Cardinality({i \in DOMAIN history[s].blobs : history[s].blobs[i] = id})

\* Raw message, body, body structure, body section, binary and binary size.
ContentRequiredAsClaimed(a) ==
    \E i \in DOMAIN a.attributes :
        a.attributes[i] \in {"Rfc822", "Rfc822Text", "Body", "BodyStructure",
                             "BodySection", "BodyPeek", "BodyHeader", "Binary",
                             "BinaryPeek", "BinarySize"}

\* The same without the body sections that start with HEADER or
\* HEADER.FIELDS.
ContentRequired(a) ==
    \E i \in DOMAIN a.attributes :
        \/ a.attributes[i] \in {"Rfc822", "Rfc822Text", "Body", "BodyStructure",
                                "Binary", "BinaryPeek", "BinarySize"}
        \/ /\ a.attributes[i] \in {"BodySection", "BodyPeek"}
           /\ a.sections[1].kind \notin {"Header", "HeaderFields"}

\* C23 as claimed: the raw content of a fetched message is retrieved once
\* when an attribute of the command is a raw message, body, body structure,
\* body section, binary or binary size, and not at all otherwise.
C23_AsClaimed ==
    \A s \in Sessions :
        IsFetch(s) /\ pc[s] \in FetchLoop \cup AfterFetchLoop =>
            \A i \in Entries(s, "sent") :
                Retrievals(s, outcome[s][i].id) =
                    IF ContentRequiredAsClaimed(arguments[s]) THEN 1 ELSE 0

\* C23: the raw content of a fetched message is retrieved once when an
\* attribute of the command is a raw message, body, body structure, binary,
\* binary size or a body section that does not start with HEADER or
\* HEADER.FIELDS, and not at all otherwise; the header sections are answered
\* from the headers kept with the metadata.
C23_MaterializationTiers ==
    \A s \in Sessions :
        IsFetch(s) /\ pc[s] \in FetchLoop \cup AfterFetchLoop =>
            /\ \A id \in Records : Retrievals(s, id) <= 1
            /\ \A i \in Entries(s, "sent") \cup Entries(s, "no_blob") :
                  Retrievals(s, outcome[s][i].id) =
                      IF ContentRequired(arguments[s]) THEN 1 ELSE 0

\* A FETCH of BODY and BODYSTRUCTURE has retrieved each message once, and a
\* FETCH of BODY[HEADER] has sent both messages without a retrieval.
C23_Witness ==
    \E s \in Sessions :
        /\ pc[s] = "done" /\ IsFetch(s)
        /\ Entries(s, "sent") = {1, 2}
        /\ \/ /\ arguments[s].attributes = <<"Body", "BodyStructure">>
              /\ history[s].blobs = <<2, 1>>
           \/ /\ arguments[s].attributes = <<"BodySection">>
              /\ arguments[s].sections = <<SectionOf("Header")>>
              /\ history[s].blobs = <<>>

\* The contents of the data item of an attribute in an entry of the response.
ContentsOf(entry, attribute) ==
    LET i == CHOOSE i \in DOMAIN entry.items : entry.items[i][1] = attribute
    IN entry.items[i][2]
HasItem(entry, attribute) ==
    \E i \in DOMAIN entry.items : entry.items[i][1] = attribute

\* C26: a BODY[] without a partial range is answered with the bytes of the
\* top-level message from the header start to the end of its root part,
\* byte for byte.
C26_WholeMessageSection ==
    \A s \in Sessions :
        (/\ IsFetch(s) /\ pc[s] \in FetchLoop \cup AfterFetchLoop
         /\ arguments[s].attributes = <<"BodyPeek">>
         /\ arguments[s].sections = <<>>
         /\ arguments[s].partial = None) =>
            \A i \in Entries(s, "sent") :
                LET id == outcome[s][i].id
                    root == Contents(id).parts[1]
                IN \E j \in ItemsOf(s, id) :
                      sent[s][j].items =
                          << <<"BodyPeek",
                               SubSeq(RawMessages(id)[1],
                                      root.offset_header + 1, root.offset_end)>> >>

\* BODY.PEEK[] of both messages was sent: twelve bytes and eight bytes.
C26_Witness ==
    \E s \in Sessions :
        /\ pc[s] = "done" /\ IsFetch(s)
        /\ arguments[s].attributes = <<"BodyPeek">>
        /\ arguments[s].sections = <<>>
        /\ \E j \in ItemsOf(s, 1) : Len(ContentsOf(sent[s][j], "BodyPeek")) = 12
        /\ \E j \in ItemsOf(s, 2) : Len(ContentsOf(sent[s][j], "BodyPeek")) = 8

\* Two names are the same but for the case of their ASCII letters.
FoldUpper(b) == IF b >= 97 /\ b <= 122 THEN b - 32 ELSE b
SameName(a, b) ==
    /\ Len(a) = Len(b)
    /\ \A i \in DOMAIN a : FoldUpper(a[i]) = FoldUpper(b[i])

\* The part and the message scope at which the traversal of the only
\* attribute of a sent message ended.
EndOfTraversal(entry) ==
    LET trace == entry.traversals[1]
    IN IF trace = <<>>
         THEN [part |-> Contents(entry.id).parts[1], message_id |-> 0]
         ELSE [part |-> trace[Len(trace)].part,
               message_id |-> trace[Len(trace)].message_id]

\* The headers as a block of bytes: name, colon and value of each.
RECURSIVE BlockOf(_, _)
BlockOf(headers, buffer) ==
    IF headers = <<>> THEN <<>>
    ELSE Head(headers).name \o <<58>>
         \o SubSeq(buffer, Head(headers).offset_start + 1,
                    Head(headers).offset_end)
         \o BlockOf(Tail(headers), buffer)

\* Session 1 has sent HEADER.FIELDS and session 2 HEADER.FIELDS.NOT of the
\* same part with the same names.
Complementary(i, k) ==
    /\ IsFetch(1) /\ IsFetch(2)
    /\ i \in Entries(1, "sent") /\ k \in Entries(2, "sent")
    /\ outcome[1][i].id = outcome[2][k].id
    /\ LET n == Len(arguments[1].sections)
       IN /\ Len(arguments[2].sections) = n
          /\ SubSeq(arguments[1].sections, 1, n - 1)
                = SubSeq(arguments[2].sections, 1, n - 1)
          /\ arguments[1].sections[n].fields = arguments[2].sections[n].fields

\* C27: HEADER.FIELDS (S) of a part is the headers of the part whose name
\* is in S but for the case, and HEADER.FIELDS.NOT (S) is the other headers
\* of the part, each in the order of the part, with their raw values, and
\* ended by one blank line: every header is in exactly one of the two. The
\* two are answered for the same paths.
C27_HeaderFieldsComplement ==
    \A i \in DOMAIN outcome[1], k \in DOMAIN outcome[2] :
        Complementary(i, k) =>
            LET id == outcome[1][i].id
                fields == arguments[1].sections[Len(arguments[1].sections)].fields
                end == EndOfTraversal(outcome[1][i])
                buffer == RawMessages(id)[end.message_id + 1]
                Named(header) == \E f \in fields : SameName(header.name, f)
                Other(header) == ~Named(header)
                Answered(t) == \E j \in ItemsOf(t, id) : sent[t][j].items # <<>>
            IN /\ Answered(1) = Answered(2)
               /\ Answered(1) =>
                  /\ EndOfTraversal(outcome[2][k]) = end
                  /\ \E j \in ItemsOf(1, id) :
                        sent[1][j].items =
                            << <<"BodyPeek",
                                 BlockOf(SelectSeq(end.part.headers, Named), buffer)
                                 \o <<13, 10>> >> >>
                  /\ \E j \in ItemsOf(2, id) :
                        sent[2][j].items =
                            << <<"BodyPeek",
                                 BlockOf(SelectSeq(end.part.headers, Other), buffer)
                                 \o <<13, 10>> >> >>

\* HEADER.FIELDS (TO Subject) of message 2 has its To header and
\* HEADER.FIELDS.NOT (TO Subject) its cc and Content-ID.
C27_Witness ==
    \E i \in DOMAIN outcome[1], k \in DOMAIN outcome[2] :
        /\ Complementary(i, k)
        /\ outcome[1][i].id = 2
        /\ arguments[1].sections[1].kind = "HeaderFields"
        /\ arguments[1].sections[1].fields = {<<84, 79>>, NameSubject}
        /\ \E j \in ItemsOf(1, 2) : Len(ContentsOf(sent[1][j], "BodyPeek")) = 7
        /\ \E j \in ItemsOf(2, 2) : Len(ContentsOf(sent[2][j], "BodyPeek")) = 20

\* The whole of the section a FETCH with a partial range asks for: the
\* message, or the body of its root part.
WholeSection(a, id) ==
    LET root == Contents(id).parts[1]
    IN IF a.sections = <<>>
         THEN SubSeq(RawMessages(id)[1], root.offset_header + 1, root.offset_end)
         ELSE SubSeq(RawMessages(id)[1], root.offset_body + 1, root.offset_end)

\* C28: for every start and length, a section of L bytes with the partial
\* range (start, length) is answered with its bytes from min(start, L) to
\* min(start + length, L), also when start + length does not fit the width
\* of the two numbers, and the FETCH never fails on it.
C28_PartialRangeSaturates ==
    \A s \in Sessions :
        /\ pc[s] # "panic"
        /\ (/\ IsFetch(s) /\ pc[s] \in FetchLoop \cup AfterFetchLoop
            /\ arguments[s].partial # None) =>
               \A j \in DOMAIN sent[s] :
                   LET a == arguments[s]
                       whole == WholeSection(a, sent[s][j].id)
                       start == a.partial[1][1]
                       length == a.partial[1][2]
                       L == Len(whole)
                   IN ContentsOf(sent[s][j], "BodyPeek") =
                          SubSeq(whole, Min(start, L) + 1, Min(start + length, L))

\* The part a path of part numbers selects by the rule of the claim: on a
\* node with children the segment N from 1 to their number selects the N-th
\* child, on a node without children the segment 1 stays on the node, every
\* other segment selects nothing; a Message that is selected with a segment
\* to follow is entered at the root of its nested message.
ClaimedSelect(message, part, num) ==
    IF part.body = "Multipart"
      THEN IF num >= 1 /\ num <= Len(part.sub_parts)
             THEN Some(message.parts[part.sub_parts[num] + 1])
             ELSE None
    ELSE IF num = 1 THEN Some(part)
    ELSE None
RECURSIVE ClaimedPart(_, _, _, _)
ClaimedPart(message, part, path, i) ==
    IF i > Len(path) THEN Some(part)
    ELSE LET selected == ClaimedSelect(message, part, path[i].num)
         IN IF selected = None THEN None
            ELSE IF selected[1].body = "Message" /\ i < Len(path)
              THEN ClaimedPart(selected[1].nested, selected[1].nested.parts[1],
                               path, i + 1)
            ELSE ClaimedPart(message, selected[1], path, i + 1)

\* C29: BODY[path], BINARY[path] and BINARY.SIZE[path] answer for a message
\* exactly when the path of part numbers selects a part of it by that rule.
C29_PathTraversalRule ==
    \A s \in Sessions :
        (/\ IsFetch(s) /\ pc[s] \in FetchLoop \cup AfterFetchLoop
         /\ arguments[s].sections # <<>>
         /\ \A i \in DOMAIN arguments[s].sections :
               arguments[s].sections[i].kind = "Part") =>
            \A i \in Entries(s, "sent") :
                LET id == outcome[s][i].id
                    selected == ClaimedPart(Contents(id), Contents(id).parts[1],
                                            arguments[s].sections, 1)
                IN (selected # None) <=>
                       \/ ErrorsOf(s, id) # {}
                       \/ \E j \in ItemsOf(s, id) : sent[s][j].items # <<>>

\* The steps of a traversal change the message scope as the kinds of
\* following section in follows say: a Message selected before such a
\* section is entered at its root and the scope is one more; every other
\* step leaves the scope and stays on the part selected.
ScopeFollows(sections, trace, follows) ==
    \A k \in DOMAIN trace :
        LET before == IF k = 1 THEN 0 ELSE trace[k - 1].message_id
            followed == k < Len(sections) /\ sections[k + 1].kind \in follows
        IN IF trace[k].selected.body = "Message" /\ followed
             THEN /\ trace[k].message_id = before + 1
                  /\ trace[k].part = trace[k].selected.nested.parts[1]
             ELSE /\ trace[k].message_id = before
                  /\ trace[k].part = trace[k].selected

\* C30 as claimed: a Message node selected with a path segment or any of
\* HEADER, HEADER.FIELDS, TEXT and MIME to follow is entered and the message
\* scope is one more; the scope changes in no other way.
C30_AsClaimed ==
    \A s \in Sessions :
        IsFetch(s) /\ pc[s] \in FetchLoop \cup AfterFetchLoop =>
            \A i \in Entries(s, "sent") :
                \A k \in DOMAIN outcome[s][i].traversals :
                    ScopeFollows(arguments[s].sections,
                                 outcome[s][i].traversals[k],
                                 {"Part", "Header", "HeaderFields", "Text", "Mime"})

\* C30: a Message node selected with a path segment, HEADER, HEADER.FIELDS
\* or TEXT to follow is entered at the root of its nested message and the
\* message scope is one more; before MIME, which is of the part itself, and
\* at the end of the sections it is not entered; the scope changes in no
\* other way.
C30_NestedMessageDescent ==
    \A s \in Sessions :
        IsFetch(s) /\ pc[s] \in FetchLoop \cup AfterFetchLoop =>
            \A i \in Entries(s, "sent") :
                \A k \in DOMAIN outcome[s][i].traversals :
                    ScopeFollows(arguments[s].sections,
                                 outcome[s][i].traversals[k],
                                 {"Part", "Header", "HeaderFields", "Text"})

\* BODY.PEEK[2.TEXT] of message 1 was answered from the message nested in
\* its part 2: the scope is 1 and the bytes are the body of the nested root.
C30_Witness ==
    \E s \in Sessions :
        /\ pc[s] = "done" /\ IsFetch(s)
        /\ arguments[s].attributes = <<"BodyPeek">>
        /\ arguments[s].sections = <<SectionPart(2), SectionOf("Text")>>
        /\ \E i \in Entries(s, "sent") :
              /\ outcome[s][i].id = 1
              /\ outcome[s][i].traversals[1][1].message_id = 1
        /\ \E j \in ItemsOf(s, 1) :
              ContentsOf(sent[s][j], "BodyPeek") = <<152, 153, 154, 155>>

\* The command of the session has resolved its addresses.
HasResolved(s) == pc[s] \in {"resolved", "expanded"}

\* The messages the session's mailbox shows: those of the change log up to
\* the batch the mailbox was synchronized with.
Visible(s) == LiveAt(change_log, mailbox[s].modseq)

\* C24: after any inserts, deletes and synchronizations the sequence
\* positions of the mailbox are exactly 1..N with N the number of visible
\* messages, one position for each visible message, and the positions the
\* resolver returns are in the order the messages were appended: deletions
\* re-pack and never reorder.
C24_ContiguousSequencePositions ==
    \A s \in Sessions :
        LET view == mailbox[s].id_to_imap
            N == Cardinality(Visible(s))
        IN /\ {m.id : m \in view} = Visible(s)
           /\ {m.seqnum : m \in view} = 1..N
           /\ Cardinality(view) = N
           /\ \A m, n \in view : m.seqnum < n.seqnum <=> m.id < n.id
           /\ (HasResolved(s) /\ ~arguments[s].is_uid) =>
                 /\ arguments[s].ids \subseteq view
                 /\ {m.seqnum : m \in arguments[s].ids} =
                        arguments[s].sequence_set \cap 1..N

\* Message 1 was deleted and message 3 appended: the sequence set 1:2
\* resolves to message 2 at position 1 and message 3 at position 2.
C24_Witness ==
    \E s \in Sessions :
        /\ HasResolved(s) /\ ~arguments[s].is_uid
        /\ Visible(s) = {2, 3}
        /\ {<<m.id, m.seqnum>> : m \in arguments[s].ids} = {<<2, 1>>, <<3, 2>>}

\* C25: the messages resolve returns and the addresses expand_missing
\* returns are disjoint and together are the requested set: each requested
\* address is that of a visible message or is reported vanished, never both
\* and never neither.
C25_ResolvePartitionsTheSet ==
    \A s \in Sessions :
        pc[s] = "expanded" =>
            LET a == arguments[s]
                live == {AddressOf(m, a.is_uid) : m \in a.ids}
            IN /\ live \cap a.missing = {}
               /\ live \cup a.missing = a.sequence_set
               /\ {m.id : m \in a.ids} \subseteq Visible(s)
               /\ Cardinality(a.ids) = Cardinality(live)

\* After a deletion and an append the UID set 1:3 has two live messages and
\* one vanished UID, and a set of sequence numbers has a vanished position.
C25_Witness ==
    \E s \in Sessions :
        /\ pc[s] = "expanded"
        /\ Visible(s) = {2, 3}
        /\ \/ /\ arguments[s].is_uid
              /\ arguments[s].sequence_set = {1, 2, 3}
              /\ arguments[s].missing = {1}
           \/ /\ ~arguments[s].is_uid
              /\ arguments[s].sequence_set = {2, 3}
              /\ arguments[s].missing = {3}

====
